---- MODULE Spec2Model ----
(***************************************************************************)
(* Model of the ml-service of GenAI-Football-Insights: the team-agnostic   *)
(* predictor (app/predictor_v2.py), the outcome resolution of the score    *)
(* model (app/models/team_score_predictor.py), the feature derivation      *)
(* (app/feature_engineering.py) and the training-sample construction       *)
(* (app/train_team_agnostic.py).                                           *)
(*                                                                         *)
(* Numbers.  The code computes in binary floating point; the model         *)
(* computes the same expressions exactly, in fixed point:                  *)
(*   goals          hundredths of a goal      (2.04 goals  = 204)          *)
(*   probabilities  millionths                (0.85        = 850000)       *)
(*   returned goals tenths (round(x, 1)),  returned probabilities and      *)
(*   confidence hundredths (round(x, 2)).                                  *)
(* Python's round() rounds the double nearest to the decimal value; at an  *)
(* exact decimal tie that double may lie on either side, so a tie rounds   *)
(* to either neighbour (RoundChoices).                                     *)
(***************************************************************************)
EXTENDS Integers, Sequences, FiniteSets, TLC

VARIABLES
    stage,          \* control position of the specification being run
    model,          \* TeamScorePredictor.model: NoValue until a load succeeds
    source_up,      \* whether the statistics source accepts connections
    matches,        \* rows of matches JOIN teams in the statistics source
    request,        \* arguments and environment of the call being modelled
    oracle,         \* the two values the fitted network returns for a request
    features,       \* how the feature derivation of the call ended
    match_result,   \* dict returned by TeamScorePredictor.predict_match
    locals,         \* predict_match's local probabilities at its return
    response,       \* dict returned by TeamAgnosticPredictor.predict
    corpus,         \* matches_df of prepare_training_data, in date order
    cursor,         \* number of rows of matches_df the loop has gone through
    X_samples,      \* feature lists appended so far
    y_samples,      \* labels appended so far
    connections     \* database connections the training run opened, closed

vars == <<stage, model, source_up, matches, request, oracle, features,
          match_result, locals, response, corpus, cursor, X_samples, y_samples,
          connections>>

\* The variables of the training run.
train_vars == <<corpus, cursor, X_samples, y_samples, connections>>

\* No connection opened yet.
NoConnections == [opened |-> 0, closed |-> 0]

\* No training run is modelled.
NoTraining ==
    /\ corpus = << >>
    /\ cursor = 0
    /\ X_samples = << >>
    /\ y_samples = << >>
    /\ connections = NoConnections

\* ------------------------------------------------------------- arithmetic
Abs(x) == IF x < 0 THEN -x ELSE x

Min(a, b) == IF a < b THEN a ELSE b

Max(a, b) == IF a > b THEN a ELSE b

Max3(a, b, c) == Max(a, Max(b, c))

\* round(x, n): x in fine units, q fine units per returned unit.
RoundChoices(x, q) ==
    LET lo  == x \div q
        rem == x % q
    IN  IF 2 * rem < q THEN {lo}
        ELSE IF 2 * rem > q THEN {lo + 1}
        ELSE {lo, lo + 1}

\* None where the code holds a name or an object.
NoValue == "None"

\* A local variable of a call that is not in progress.
Unbound == [bound |-> FALSE]

\* None (SQL NULL) where the code holds a number: below every value.
Null == 0 - 1000000000

\* `home_team_name or "Home Team"`
NameOr(name, default) == IF name = NoValue THEN default ELSE name

\* f"{name} Win"
WinOf(name) == name \o " Win"

\* ------------------------------------------------ TeamScorePredictor
\* team_x_goals = max(0, model.predict(...)[0][0])
ClampGoals(raw) == Max(0, raw)

\* WinProbabilities with the draw floor of a close match at 0.6.
WinProbabilitiesHighFloor(goal_diff) ==
    IF goal_diff > 100 \/ goal_diff < -100 THEN
        LET w == Min(850000, 500000 + Abs(goal_diff) * 1500)
            l == Max(50000, 500000 - Abs(goal_diff) * 2000)
        IN  IF goal_diff > 0 THEN [a |-> w, b |-> l, draw |-> 1000000 - w - l]
            ELSE [a |-> l, b |-> w, draw |-> 1000000 - w - l]
    ELSE
        LET a == 500000 + goal_diff * 1000
            b == 500000 - goal_diff * 1000
        IN  [a |-> a, b |-> b, draw |-> Max(600000, 1000000 - a - b)]

\* Win probabilities from the goal difference (hundredths of a goal).
WinProbabilities(goal_diff) ==
    IF goal_diff > 100 THEN
        LET a == Min(850000, 500000 + goal_diff * 1500)
            b == Max(50000, 500000 - goal_diff * 2000)
        IN  [a |-> a, b |-> b, draw |-> 1000000 - a - b]
    ELSE IF goal_diff < -100 THEN
        LET b == Min(850000, 500000 + Abs(goal_diff) * 1500)
            a == Max(50000, 500000 - Abs(goal_diff) * 2000)
        IN  [a |-> a, b |-> b, draw |-> 1000000 - a - b]
    ELSE
        LET a == 500000 + goal_diff * 1000
            b == 500000 - goal_diff * 1000
        IN  [a |-> a, b |-> b, draw |-> Max(200000, 1000000 - a - b)]

\* prob_diff_threshold = 0.02
ProbDiffThreshold == 20000

\* NearTie with the threshold written as 0.002.
NearTieNarrow(team_a_prob, team_b_prob, max_prob) ==
    /\ Abs(team_a_prob - team_b_prob) < 2000
    /\ max_prob \in {team_a_prob, team_b_prob}

\* abs(team_a_prob - team_b_prob) < prob_diff_threshold
\*     and max_prob in (team_a_prob, team_b_prob)
NearTie(team_a_prob, team_b_prob, max_prob) ==
    /\ Abs(team_a_prob - team_b_prob) < ProbDiffThreshold
    /\ max_prob \in {team_a_prob, team_b_prob}

\* CalculateConfidence without the cap of 0.45.
CalculateConfidenceUncapped(winning_goals, losing_goals) ==
    500000 + (winning_goals - losing_goals) * 1500

\* confidence = 0.5 + min(0.45, goal_diff * 0.15)
CalculateConfidence(winning_goals, losing_goals) ==
    500000 + Min(450000, (winning_goals - losing_goals) * 1500)

\* The near-tie branch.  team_a_prob is reassigned before team_b_prob is
\* computed from it.  The products are whole millionths wherever the branch
\* is taken (there team_a_prob + team_b_prob = 1000000).
NearTieRebalance(p) ==
    LET draw_prob   == 1000000 - ((p.a + p.b) * 15) \div 100
        team_a_prob == ((p.a + p.b) * 425) \div 1000
        team_b_prob == ((team_a_prob + p.b) * 425) \div 1000
    IN  [a |-> team_a_prob, b |-> team_b_prob, draw |-> draw_prob]

\* confidence = min(0.95, 0.6 + draw_prob * 0.3)
NearTieConfidence(draw_prob) == Min(950000, 600000 + (draw_prob * 3) \div 10)

\* confidence = 0.5 + (0.5 - abs(goal_diff))
NaturalDrawConfidence(goal_diff) == 500000 + (500000 - Abs(goal_diff) * 10000)

\* predict_match from the clamped goals to its locals at the return
\* statement: outcome, winner, the three probabilities and the unrounded
\* confidence.
ResolveOutcome(team_a_goals, team_b_goals, team_a_name, team_b_name) ==
    LET goal_diff == team_a_goals - team_b_goals
        p         == WinProbabilities(goal_diff)
        max_prob  == Max3(p.a, p.b, p.draw)
    IN  IF NearTie(p.a, p.b, max_prob) THEN
            LET q == NearTieRebalance(p)
            IN  [outcome |-> "Draw", winner |-> "Draw", branch |-> "near_tie",
                 team_a_prob |-> q.a, team_b_prob |-> q.b, draw_prob |-> q.draw,
                 confidence |-> NearTieConfidence(q.draw)]
        ELSE IF max_prob = p.a THEN
            [outcome |-> WinOf(team_a_name), winner |-> team_a_name, branch |-> "a",
             team_a_prob |-> p.a, team_b_prob |-> p.b, draw_prob |-> p.draw,
             confidence |-> CalculateConfidence(team_a_goals, team_b_goals)]
        ELSE IF max_prob = p.b THEN
            [outcome |-> WinOf(team_b_name), winner |-> team_b_name, branch |-> "b",
             team_a_prob |-> p.a, team_b_prob |-> p.b, draw_prob |-> p.draw,
             confidence |-> CalculateConfidence(team_b_goals, team_a_goals)]
        ELSE
            [outcome |-> "Draw", winner |-> "Draw", branch |-> "draw",
             team_a_prob |-> p.a, team_b_prob |-> p.b, draw_prob |-> p.draw,
             confidence |-> NaturalDrawConfidence(goal_diff)]

\* The dicts predict_match can return for the two raw network outputs
\* (one per way the values at a rounding tie can fall).
PredictMatch(raw_a, raw_b, team_a_name, team_b_name) ==
    LET team_a_goals == ClampGoals(raw_a)
        team_b_goals == ClampGoals(raw_b)
        l            == ResolveOutcome(team_a_goals, team_b_goals,
                                       team_a_name, team_b_name)
    IN  { [predicted_outcome      |-> l.outcome,
           predicted_winner       |-> l.winner,
           team_a_name            |-> team_a_name,
           team_b_name            |-> team_b_name,
           team_a_predicted_goals |-> ga,
           team_b_predicted_goals |-> gb,
           confidence_score       |-> c,
           goal_difference        |-> gd] :
          ga \in RoundChoices(team_a_goals, 10),
          gb \in RoundChoices(team_b_goals, 10),
          c  \in RoundChoices(l.confidence, 10000),
          gd \in RoundChoices(team_a_goals - team_b_goals, 10) }

\* ------------------------------------------------ TeamAgnosticPredictor
LearnedVersion == "team-agnostic-v1.0-neural-network"

FallbackVersion == "fallback-v1.0"

\* An insight is kept as what it says (kind), the team it is about (side:
\* "home", "away", "winner" for result['predicted_winner'], "none") and
\* the name the f-string prints for that team.
Insight(kind, side, subject) == [kind |-> kind, side |-> side, subject |-> subject]

\* `x > y + margin` on floats: at equality in decimal the binary sum can
\* fall on either side.
Exceeds(x, y, margin) ==
    IF x > y + margin THEN {TRUE}
    ELSE IF x < y + margin THEN {FALSE}
    ELSE BOOLEAN

\* `x < bound` on floats, likewise.
Below(x, bound) ==
    IF x < bound THEN {TRUE}
    ELSE IF x > bound THEN {FALSE}
    ELSE BOOLEAN

\* insights[:6]
FirstSix(insights) == SubSeq(insights, 1, Min(6, Len(insights)))

\* _generate_insights: the lists it can return.  Qualities, xG and form
\* are hundredths, goals tenths, the confidence hundredths.
GenerateInsights(home_features, away_features, result, home_team_name, away_team_name) ==
    LET home_goals   == result.team_a_predicted_goals
        away_goals   == result.team_b_predicted_goals
        quality_diff == home_features.quality_difference
        home_xg      == home_features.team_xg_per_game
        away_xg      == away_features.team_xg_per_game
        home_form    == home_features.team_form_last_5
        away_form    == away_features.team_form_last_5
        confidence   == result.confidence_score
        quality(big) ==
            IF big THEN
                IF quality_diff > 0
                THEN << Insight("superior_quality", "home", home_team_name) >>
                ELSE << Insight("superior_quality", "away", away_team_name) >>
            ELSE << >>
        chances(home_more, away_more) ==
            IF home_more THEN << Insight("more_chances", "home", home_team_name) >>
            ELSE IF away_more THEN << Insight("more_chances", "away", away_team_name) >>
            ELSE << >>
        form(home_better, away_better) ==
            IF home_better THEN << Insight("better_form", "home", home_team_name) >>
            ELSE IF away_better THEN << Insight("better_form", "away", away_team_name) >>
            ELSE << >>
        score(home_dominates, away_dominates, close) ==
            IF home_dominates THEN << Insight("dominate", "home", home_team_name) >>
            ELSE IF away_dominates THEN << Insight("dominate", "away", away_team_name) >>
            ELSE IF close THEN << Insight("close_contest", "none", NoValue) >>
            ELSE << >>
        certainty ==
            IF confidence > 80
            THEN << Insight("high_confidence_victory", "winner",
                            result.predicted_winner) >>
            ELSE IF confidence < 60 THEN << Insight("uncertain", "none", NoValue) >>
            ELSE << >>
    IN  { FirstSix(quality(big) \o chances(hx, ax) \o form(hf, af)
                   \o score(hd, ad, close) \o certainty) :
          big \in Exceeds(Abs(quality_diff), 0, 1500),
          hx  \in Exceeds(home_xg, away_xg, 50),
          ax  \in Exceeds(away_xg, home_xg, 50),
          hf  \in Exceeds(home_form, away_form, 15),
          af  \in Exceeds(away_form, home_form, 15),
          hd  \in Exceeds(home_goals, away_goals, 15),
          ad  \in Exceeds(away_goals, home_goals, 15),
          close \in Below(Abs(home_goals - away_goals), 5) }

\* _fallback_prediction
FallbackPrediction ==
    [predicted_outcome      |-> "Draw",
     predicted_winner       |-> "Draw",
     team_a_predicted_goals |-> 15,
     team_b_predicted_goals |-> 15,
     confidence_score       |-> 50,
     goal_difference        |-> 0,
     model_version          |-> FallbackVersion,
     insights               |-> << Insight("model_unavailable", "none", NoValue) >>,
     key_features           |-> << >>]

\* predict's own conversion of the goal difference (hundredths of a goal)
\* to win probabilities, "for backward compatibility".
HomeAwayProbabilities(goal_diff) ==
    IF goal_diff > 100 THEN
        LET home_prob == Min(850000, 500000 + goal_diff * 1500)
            away_prob == Max(50000, 500000 - goal_diff * 2000)
        IN  [home |-> home_prob, away |-> away_prob,
             draw |-> 1000000 - home_prob - away_prob]
    ELSE IF goal_diff < -100 THEN
        LET away_prob == Min(850000, 500000 + Abs(goal_diff) * 1500)
            home_prob == Max(50000, 500000 - Abs(goal_diff) * 2000)
        IN  [home |-> home_prob, away |-> away_prob,
             draw |-> 1000000 - home_prob - away_prob]
    ELSE
        LET home_prob == 500000 + goal_diff * 1000
            away_prob == 500000 - goal_diff * 1000
        IN  [home |-> home_prob, away |-> away_prob,
             draw |-> Max(200000, 1000000 - home_prob - away_prob)]

\* The responses predict builds from predict_match's dict: the goal
\* difference is taken from the goals already rounded to one decimal.
LearnedResponse(result, home_features, away_features, home_team_name, away_team_name) ==
    LET goal_diff == 10 * (result.team_a_predicted_goals
                           - result.team_b_predicted_goals)
        p         == HomeAwayProbabilities(goal_diff)
    IN  { [predicted_outcome      |-> result.predicted_outcome,
           predicted_winner       |-> result.predicted_winner,
           team_a_predicted_goals |-> result.team_a_predicted_goals,
           team_b_predicted_goals |-> result.team_b_predicted_goals,
           confidence_score       |-> result.confidence_score,
           goal_difference        |-> result.goal_difference,
           home_win_probability   |-> h,
           draw_probability       |-> d,
           away_win_probability   |-> a,
           model_version          |-> LearnedVersion,
           insights               |-> insights,
           key_features           |->
               [home_quality       |-> home_features.team_quality_rating,
                away_quality       |-> away_features.team_quality_rating,
                home_xg            |-> home_features.team_xg_per_game,
                away_xg            |-> away_features.team_xg_per_game,
                quality_difference |-> home_features.quality_difference]] :
          insights \in GenerateInsights(home_features, away_features, result,
                                        home_team_name, away_team_name),
          h \in RoundChoices(p.home, 10000),
          d \in RoundChoices(p.draw, 10000),
          a \in RoundChoices(p.away, 10000) }

\* ------------------------------------------------ rating fallback
\* elo_ratings of _predict_international_match (names in ASCII).
EloRatings ==
    "Brazil" :> 2050 @@ "Argentina" :> 2040 @@ "France" :> 2030 @@ "England" :> 2020 @@
    "Spain" :> 2010 @@ "Germany" :> 1990 @@ "Portugal" :> 1980 @@ "Netherlands" :> 1970 @@
    "Belgium" :> 1960 @@ "Italy" :> 1950 @@ "Croatia" :> 1900 @@ "Uruguay" :> 1890 @@
    "Colombia" :> 1880 @@ "Mexico" :> 1870 @@ "Switzerland" :> 1860 @@ "USA" :> 1850 @@
    "Senegal" :> 1840 @@ "Japan" :> 1830 @@ "Morocco" :> 1820 @@ "Korea Republic" :> 1810 @@
    "Denmark" :> 1800 @@ "Austria" :> 1790 @@ "Ecuador" :> 1780 @@ "Tunisia" :> 1770 @@
    "Poland" :> 1760 @@ "Australia" :> 1730 @@ "Canada" :> 1720 @@ "IR Iran" :> 1710 @@
    "Saudi Arabia" :> 1700 @@ "Egypt" :> 1690 @@ "Norway" :> 1680 @@ "Scotland" :> 1670 @@
    "Ghana" :> 1660 @@ "Cote d'Ivoire" :> 1650 @@ "Algeria" :> 1640 @@ "South Africa" :> 1630 @@
    "Qatar" :> 1620 @@ "Panama" :> 1610 @@ "Paraguay" :> 1600 @@ "Uzbekistan" :> 1590 @@
    "Jordan" :> 1560 @@ "Cabo Verde" :> 1550 @@ "New Zealand" :> 1540 @@ "Curacao" :> 1530 @@
    "Haiti" :> 1520

\* elo_ratings.get(name, 1700)
NeutralRating == 1700

HomeAdvantage == 50

EloOf(name) ==
    IF name \in DOMAIN EloRatings THEN EloRatings[name] ELSE NeutralRating

\* 1 / (1 + 10 ** (-elo_diff / 400)) in millionths, to the nearest
\* millionth, for elo_diff = -480, -470, ..., 580: every difference
\* rating + 50 - rating of two ratings of the table or the neutral one.
LogisticTable ==
    << 59351, 62647, 66114, 69758, 73588, 77609, 81832, 86262,
       90909, 95780, 100883, 106225, 111816, 117662, 123771, 130150,
       136807, 143748, 150980, 158508, 166338, 174474, 182921, 191682,
       200760, 210156, 219870, 229903, 240253, 250917, 261891, 273170,
       284747, 296615, 308764, 321183, 333861, 346783, 359935, 373301,
       386863, 400603, 414501, 428537, 442688, 456934, 471249, 485613,
       500000, 514387, 528751, 543066, 557312, 571463, 585499, 599397,
       613137, 626699, 640065, 653217, 666139, 678817, 691236, 703385,
       715253, 726830, 738109, 749083, 759747, 770097, 780130, 789844,
       799240, 808318, 817079, 825526, 833662, 841492, 849020, 856252,
       863193, 869850, 876229, 882338, 888184, 893775, 899117, 904220,
       909091, 913738, 918168, 922391, 926412, 930242, 933886, 937353,
       940649, 943782, 946760, 949588, 952273, 954822, 957242, 959537,
       961713, 963778, 965734 >>

LogisticWinProbability(elo_diff) == LogisticTable[(elo_diff + 480) \div 10 + 1]

\* BaseDrawProbability with the draw factor weighted 0.5 instead of 0.25.
BaseDrawProbabilityHeavy(elo_diff) ==
    Max(0, 1000000 - Abs(elo_diff) * 5000) \div 2 + 150000

\* draw_factor = max(0, 1 - abs(elo_diff) / 200)
\* base_draw_prob = 0.25 * draw_factor + 0.15
BaseDrawProbability(elo_diff) ==
    Max(0, 1000000 - Abs(elo_diff) * 5000) \div 4 + 150000

\* num / den in millionths (rounded down), by long division three digits
\* at a time; num and den below 2,000,000 stay within 32 bits.
Ratio(num, den) ==
    LET high == (num * 1000) \div den
        rest == (num * 1000) % den
    IN  high * 1000 + (rest * 1000) \div den

\* The three normalized probabilities.
RatingProbabilities(elo_diff) ==
    LET home_win_prob  == LogisticWinProbability(elo_diff)
        away_win_prob  == 1000000 - home_win_prob
        base_draw_prob == BaseDrawProbability(elo_diff)
        total          == home_win_prob + away_win_prob + base_draw_prob
    IN  [home |-> Ratio(home_win_prob, total),
         away |-> Ratio(away_win_prob, total),
         draw |-> Ratio(base_draw_prob, total)]

\* RatingWinConfidence adding the probability itself, uncapped.
RatingWinConfidenceNoOffset(prob) == 500000 + prob

\* confidence = 0.5 + min(0.4, (prob - 0.5))
RatingWinConfidence(prob) == 500000 + Min(400000, prob - 500000)

\* confidence = 0.5 + min(0.3, (draw_prob - 0.25))
RatingDrawConfidence(draw_prob) == 500000 + Min(300000, draw_prob - 250000)

\* "Choose winner based on highest probability"
RatingOutcome(home_team_name, away_team_name, p) ==
    LET max_prob == Max3(p.home, p.away, p.draw)
    IN  IF max_prob = p.home THEN
            [outcome |-> WinOf(home_team_name), winner |-> home_team_name,
             confidence |-> RatingWinConfidence(p.home)]
        ELSE IF max_prob = p.away THEN
            [outcome |-> WinOf(away_team_name), winner |-> away_team_name,
             confidence |-> RatingWinConfidence(p.away)]
        ELSE
            [outcome |-> "Draw", winner |-> "Draw",
             confidence |-> RatingDrawConfidence(p.draw)]

\* 0.8 + ((elo - 1400) / 300), in 300ths of a goal.
ExpectedGoals(elo) == 240 + (elo - 1400)

RatingVersion == "international-elo-xg-v2.0"

\* The insights of _predict_international_match (expected goals in 300ths).
RatingInsights(elo_diff, home_xg, away_xg, home_team_name, away_team_name) ==
    LET stronger == IF elo_diff > 0 THEN [side |-> "home", name |-> home_team_name]
                    ELSE [side |-> "away", name |-> away_team_name]
        quality  == IF Abs(elo_diff) > 200
                    THEN Insight("superior_quality", stronger.side, stronger.name)
                    ELSE IF Abs(elo_diff) > 100
                    THEN Insight("edge_in_quality", stronger.side, stronger.name)
                    ELSE Insight("evenly_matched", "none", NoValue)
        chances(home_more, away_more) ==
            IF home_more THEN << Insight("more_chances", "home", home_team_name) >>
            ELSE IF away_more THEN << Insight("more_chances", "away", away_team_name) >>
            ELSE << >>
    IN  { << quality >> \o chances(hx, ax)
             \o << Insight("predicted_scoreline", "none", NoValue) >> :
          hx \in Exceeds(home_xg, away_xg, 150),
          ax \in Exceeds(away_xg, home_xg, 150) }

\* The dicts _predict_international_match can return.
PredictInternationalMatch(home_team_name, away_team_name) ==
    LET home_elo          == EloOf(home_team_name)
        away_elo          == EloOf(away_team_name)
        adjusted_home_elo == home_elo + HomeAdvantage
        elo_diff          == adjusted_home_elo - away_elo
        home_xg           == ExpectedGoals(adjusted_home_elo)
        away_xg           == ExpectedGoals(away_elo)
        p                 == RatingProbabilities(elo_diff)
        o                 == RatingOutcome(home_team_name, away_team_name, p)
    IN  { [predicted_outcome      |-> o.outcome,
           predicted_winner       |-> o.winner,
           team_a_predicted_goals |-> ga,
           team_b_predicted_goals |-> gb,
           confidence_score       |-> c,
           goal_difference        |-> gd,
           home_win_probability   |-> h,
           draw_probability       |-> d,
           away_win_probability   |-> a,
           model_version          |-> RatingVersion,
           insights               |-> insights,
           key_features           |-> [home_elo |-> home_elo,
                                       away_elo |-> away_elo,
                                       elo_difference |-> elo_diff,
                                       home_xg |-> hx,
                                       away_xg |-> ax]] :
          hx \in RoundChoices(home_xg, 3),
          ax \in RoundChoices(away_xg, 3),
          insights \in RatingInsights(elo_diff, home_xg, away_xg,
                                      home_team_name, away_team_name),
          ga \in RoundChoices(home_xg, 30),
          gb \in RoundChoices(away_xg, 30),
          c  \in RoundChoices(o.confidence, 10000),
          gd \in RoundChoices(home_xg - away_xg, 30),
          h  \in RoundChoices(p.home, 10000),
          d  \in RoundChoices(p.draw, 10000),
          a  \in RoundChoices(p.away, 10000) }

\* ------------------------------------------------ feature derivation
\* Feature values are hundredths (50.0 = 5000, 1.5 = 150, 7 days = 700).
\*
\* A reply of the statistics source is what its queries return for one
\* team at one date: the aggregate rows (a NULL aggregate is Null) and,
\* for the tables read with LIMIT 1, the sequence of the rows returned.

\* dict.get(key, default)
Get(dict, key, default) == IF key \in DOMAIN dict THEN dict[key] ELSE default

\* GetTeamQualityRating without the early return for a team without
\* matches: the weighted sum of a zero win rate and a neutral goal score.
GetTeamQualityRatingNoDefault(row) ==
    IF row.total_matches = 0 THEN {2000}
    ELSE
        LET goal_diff  == IF row.avg_goals_scored \in {Null, 0} THEN 0
                          ELSE row.avg_goals_scored - row.avg_goals_conceded
            goal_score == Min(10000, Max(0, 5000 + goal_diff * 10))
        IN  RoundChoices(60000 * row.wins + 4 * goal_score * row.total_matches,
                         10 * row.total_matches)

\* _get_team_quality_rating on the row of its query.
GetTeamQualityRating(row) ==
    IF row.total_matches = 0 THEN {5000}
    ELSE
        LET goal_diff  == IF row.avg_goals_scored \in {Null, 0} THEN 0
                          ELSE row.avg_goals_scored - row.avg_goals_conceded
            goal_score == Min(10000, Max(0, 5000 + goal_diff * 10))
            \* (wins / total) * 100 * 0.6 + goal_score * 0.4, over 10 * total
        IN  RoundChoices(60000 * row.wins + 4 * goal_score * row.total_matches,
                         10 * row.total_matches)

\* _get_team_attacking_stats on the team_tactics row and the matches row.
GetTeamAttackingStats(tactics, row) ==
    [xg_per_game            |-> IF Len(tactics) > 0 THEN tactics[1].xg_per_game ELSE 150,
     goals_per_game         |-> row.goals_per_game,
     shots_per_game         |-> IF Len(tactics) > 0 THEN tactics[1].avg_shots_per_game ELSE 1200,
     possession_avg         |-> IF Len(tactics) > 0 THEN tactics[1].avg_possession ELSE 5000,
     pressing_intensity     |-> IF Len(tactics) > 0 THEN tactics[1].pressing_intensity ELSE 500,
     top_striker_xg         |-> 50,
     playmaker_assists      |-> 300,
     formation_attack_score |-> 500]

\* _get_team_defensive_stats on the row of its query.
GetTeamDefensiveStats(row) ==
    [xg_conceded_per_game    |-> 150,
     goals_conceded_per_game |-> row.goals_conceded_per_game,
     defensive_rating        |-> 500,
     goalkeeper_save_pct     |-> 70,
     tackles_per_game        |-> 1500,
     formation_defense_score |-> 500]

\* CalculateRestDays without the cap.
CalculateRestDaysUncapped(last_match_days) ==
    IF last_match_days # Null THEN 100 * last_match_days ELSE 700

\* _calculate_rest_days on the days since MAX(utc_date).
CalculateRestDays(last_match_days) ==
    IF last_match_days # Null THEN 100 * Min(last_match_days, 14) ELSE 700

\* _estimate_travel_distance
EstimateTravelDistance == 20000

\* _calculate_injury_impact: -min(0.3, injured_count * 0.05)
CalculateInjuryImpact(injured_count) == -Min(30, injured_count * 5)

\* _get_head_to_head_stats on the row of its query.
GetHeadToHeadStats(row) ==
    IF row.goals_scored_avg # Null THEN
        [goals_scored_avg   |-> row.goals_scored_avg,
         goals_conceded_avg |-> row.goals_conceded_avg,
         win_rate           |-> IF row.win_rate \in {Null, 0} THEN 50
                                ELSE row.win_rate]
    ELSE [goals_scored_avg |-> 150, goals_conceded_avg |-> 150, win_rate |-> 50]

\* _get_team_form on the form_score of its two queries.
GetTeamForm(score_5, score_10) ==
    LET form_5  == IF score_5 \in {Null, 0} THEN 50 ELSE score_5
        form_10 == IF score_10 \in {Null, 0} THEN 50 ELSE score_10
    IN  [form_last_5 |-> form_5, form_last_10 |-> form_10,
         momentum |-> form_5 - form_10]

\* _get_coach_win_rate on the team_coaches row.
GetCoachWinRate(coach) == IF Len(coach) > 0 THEN coach[1].win_rate ELSE 50

\* _calculate_tactical_matchup
CalculateTacticalMatchup == 500

\* The statistic reads of one extract_features_for_team call, in the order
\* the code makes them.
ReadOrder == << "team_quality", "opponent_quality", "attack", "defense",
                "rest_days", "injuries", "h2h", "team_form", "opponent_form",
                "coach" >>

Reads == { ReadOrder[i] : i \in DOMAIN ReadOrder }

\* The feature dict extract_features_for_team builds when every read
\* returns, given the values its two _get_team_quality_rating calls return.
FeatureDict(team, opponent, is_at_venue, team_quality, opponent_quality) ==
    LET team_attack      == GetTeamAttackingStats(team.tactics, team.attack)
        opponent_defense == GetTeamDefensiveStats(opponent.defense)
        h2h              == GetHeadToHeadStats(team.h2h)
        form             == GetTeamForm(team.form_5, team.form_10)
        opponent_form    == GetTeamForm(opponent.form_5, opponent.form_10)
        team_xg          == Get(team_attack, "xg_per_game", 150)
        opponent_xgc     == Get(opponent_defense, "xg_conceded_per_game", 150)
    IN  [team_quality_rating          |-> team_quality,
         opponent_quality_rating      |-> opponent_quality,
         team_xg_per_game             |-> team_xg,
         team_goals_per_game          |-> Get(team_attack, "goals_per_game", 150),
         team_shots_per_game          |-> Get(team_attack, "shots_per_game", 1200),
         team_striker_xg              |-> Get(team_attack, "top_striker_xg", 50),
         team_playmaker_assists       |-> Get(team_attack, "playmaker_assists", 300),
         team_formation_attack        |-> Get(team_attack, "formation_attack_score", 500),
         team_pressing_intensity      |-> Get(team_attack, "pressing_intensity", 500),
         team_possession_avg          |-> Get(team_attack, "possession_avg", 5000),
         opponent_xg_conceded         |-> opponent_xgc,
         opponent_goals_conceded      |-> Get(opponent_defense, "goals_conceded_per_game", 150),
         opponent_defensive_rating    |-> Get(opponent_defense, "defensive_rating", 500),
         opponent_goalkeeper_save_pct |-> Get(opponent_defense, "goalkeeper_save_pct", 70),
         opponent_tackles_per_game    |-> Get(opponent_defense, "tackles_per_game", 1500),
         opponent_formation_defense   |-> Get(opponent_defense, "formation_defense_score", 500),
         venue_factor                 |-> IF is_at_venue THEN 100 ELSE 85,
         rest_days                    |-> CalculateRestDays(team.last_match_days),
         travel_distance              |-> IF is_at_venue THEN 0 ELSE EstimateTravelDistance,
         injury_impact                |-> CalculateInjuryImpact(team.injured_count),
         h2h_goals_scored_avg         |-> Get(h2h, "goals_scored_avg", 150),
         h2h_goals_conceded_avg       |-> Get(h2h, "goals_conceded_avg", 150),
         h2h_win_rate                 |-> Get(h2h, "win_rate", 50),
         team_form_last_5             |-> Get(form, "form_last_5", 50),
         team_form_last_10            |-> Get(form, "form_last_10", 50),
         team_momentum                |-> Get(form, "momentum", 0),
         opponent_form_last_5         |-> Get(opponent_form, "form_last_5", 50),
         coach_win_rate               |-> GetCoachWinRate(team.coach),
         tactical_matchup_score       |-> CalculateTacticalMatchup,
         quality_difference           |-> team_quality - opponent_quality,
         attack_vs_defense            |-> team_xg - opponent_xgc]

\* _get_team_quality_rating returns the same value for the same row: the
\* ways its rounding can fall, one value per row.
QualityResolutions(rows) ==
    { q \in [rows -> UNION { GetTeamQualityRating(r) : r \in rows }] :
        \A r \in rows : q[r] \in GetTeamQualityRating(r) }

\* The feature dicts extract_features_for_team can build when every read
\* returns.
FeatureVectors(team, opponent, is_at_venue) ==
    { FeatureDict(team, opponent, is_at_venue,
                  q[team.quality], q[opponent.quality]) :
      q \in QualityResolutions({team.quality, opponent.quality}) }

\* The read at which the call stops: the first one, in the order of the
\* code, that raises.  No helper and no line of extract_features_for_team
\* catches an exception.
FirstFailure(failing) ==
    ReadOrder[CHOOSE i \in DOMAIN ReadOrder :
                 /\ ReadOrder[i] \in failing
                 /\ \A j \in 1 .. i - 1 : ReadOrder[j] \notin failing]

\* The ways extract_features_for_team can end when the reads in `failing`
\* raise: it returns a feature dict, or the exception leaves the call.
ExtractFeaturesForTeam(team, opponent, is_at_venue, failing) ==
    IF failing \cap Reads # {} THEN
        { [raised |-> TRUE, at |-> FirstFailure(failing)] }
    ELSE
        { [raised |-> FALSE, features |-> f] :
          f \in FeatureVectors(team, opponent, is_at_venue) }

\* ------------------------------------------------ statistics source
\* Reply for a team with no finished match before the date: every
\* aggregate is over no rows (COUNT is 0, SUM, AVG and MAX are NULL) and
\* the tables read with LIMIT 1 hold no row for the team.
NoHistoryReply ==
    [quality         |-> [total_matches |-> 0, wins |-> Null,
                          avg_goals_scored |-> Null,
                          avg_goals_conceded |-> Null],
     tactics         |-> << >>,
     attack          |-> [goals_per_game |-> Null, matches |-> 0],
     defense         |-> [goals_conceded_per_game |-> Null, matches |-> 0],
     last_match_days |-> Null,
     injured_count   |-> 0,
     h2h             |-> [goals_scored_avg |-> Null,
                          goals_conceded_avg |-> Null, win_rate |-> Null],
     form_5          |-> Null,
     form_10         |-> Null,
     coach           |-> << >>]

\* Reply for a team with history: 3 wins in 7 matches of the last 365
\* days, 2.0 goals scored and 1.0 conceded per match, last match 20 days
\* before the date, two players unavailable.
HistoryReply ==
    [quality         |-> [total_matches |-> 7, wins |-> 3,
                          avg_goals_scored |-> 200,
                          avg_goals_conceded |-> 100],
     tactics         |-> << [xg_per_game |-> 200, avg_shots_per_game |-> 1400,
                             avg_possession |-> 5500,
                             pressing_intensity |-> 600] >>,
     attack          |-> [goals_per_game |-> 200, matches |-> 5],
     defense         |-> [goals_conceded_per_game |-> 100, matches |-> 5],
     last_match_days |-> 20,
     injured_count   |-> 2,
     h2h             |-> [goals_scored_avg |-> 150,
                          goals_conceded_avg |-> 50, win_rate |-> 50],
     form_5          |-> 80,
     form_10         |-> 60,
     coach           |-> << [win_rate |-> 55] >>]

\* A team's reply when the two teams share no finished match.
WithoutSharedHistory(reply) == [reply EXCEPT !.h2h = NoHistoryReply.h2h]

\* The replies for a team and its opponent, by whether each has history.
ReplyFor(has_history, opponent_has_history) ==
    IF ~has_history THEN NoHistoryReply
    ELSE IF ~opponent_has_history THEN WithoutSharedHistory(HistoryReply)
    ELSE HistoryReply

\* Sets of reads that raise during one call.
MaxFailing == 1

Faults == { f \in SUBSET Reads : Cardinality(f) <= MaxFailing }

\* ------------------------------------------------ the prediction service
\* Rows of matches JOIN teams for the two teams of the model: `past`
\* finished matches on distinct days before the request's date, `today`
\* finished matches dated on it, and one match still to be played.
MaxFinished == 6

MaxToday == 1

Teams == {1, 2}

RowsOf(team, past, today) ==
    { [team |-> team, day |-> 0 - d, kickoff |-> 1, status |-> "FINISHED"] :
        d \in 1 .. past }
    \cup { [team |-> team, day |-> 0, kickoff |-> k, status |-> "FINISHED"] :
             k \in 1 .. today }
    \cup { [team |-> team, day |-> 1, kickoff |-> 1, status |-> "SCHEDULED"] }

\* Finished matches of a team strictly before the date of the request
\* (day 0): what the feature queries see (m.utc_date < match_date).
FinishedBefore(team_id) ==
    Cardinality({ m \in matches :
                    m.team = team_id /\ m.status = "FINISHED" /\ m.day < 0 })

\* _check_team_has_data: COUNT(*) of the team's FINISHED rows; match_date
\* is not part of the query.
CheckTeamHasData(team_id, match_date) ==
    Cardinality({ m \in matches :
                    m.team = team_id /\ m.status = "FINISHED" }) > 5

\* TeamScorePredictor.load() as called by TeamAgnosticPredictor.__init__:
\* the model object when both files exist and load, None otherwise; the
\* failure is printed and construction goes on.
LoadModel(artifact_loads) == IF artifact_loads THEN "fitted" ELSE NoValue

\* Where predict returns: "international" (line 49), "learned" (line 102),
\* or the except clause (line 126) after psycopg2.connect raised in
\* _check_team_has_data, a statistic read raised in
\* extract_features_for_team, or predict_match raised ValueError.
PredictPath(home_team_id, away_team_id, failing) ==
    IF ~source_up THEN "except"
    ELSE IF ~CheckTeamHasData(home_team_id, 0) /\ ~CheckTeamHasData(away_team_id, 0)
        THEN "international"
    ELSE IF failing \cap Reads # {} THEN "except"
    ELSE IF model = NoValue THEN "except"
    ELSE "learned"

\* Raw network outputs: GoalGrid * i hundredths of a goal.
MaxGoalIndex == 160

GoalGrid == 2

OracleOutputs == { GoalGrid * i : i \in -1 .. MaxGoalIndex }

\* Network outputs drawn in the service: whole goals.
ServiceGoals == { g \in OracleOutputs : g >= 0 /\ g % 100 = 0 }

ServiceNames == { [home |-> NoValue, away |-> NoValue],
                  [home |-> "Brazil", away |-> "Atlantis"] }

Init ==
    /\ stage = "import"
    /\ model = NoValue
    /\ source_up = TRUE
    /\ \E p1, p2 \in 0 .. MaxFinished, t1, t2 \in 0 .. MaxToday :
           matches = RowsOf(1, p1, t1) \cup RowsOf(2, p2, t2)
    /\ request = Unbound
    /\ oracle = Unbound
    /\ features = Unbound
    /\ match_result = Unbound
    /\ locals = Unbound
    /\ response = Unbound
    /\ NoTraining

\* predictor = TeamAgnosticPredictor()
Construct ==
    /\ stage = "import"
    /\ \E artifact_loads \in BOOLEAN : model' = LoadModel(artifact_loads)
    /\ stage' = "serving"
    /\ UNCHANGED <<source_up, matches, request, oracle, features,
                   match_result, locals, response>>
    /\ UNCHANGED train_vars

\* The statistics source stops accepting connections.
Outage ==
    /\ stage = "serving"
    /\ source_up
    /\ source_up' = FALSE
    /\ UNCHANGED <<stage, model, matches, request, oracle, features,
                   match_result, locals, response>>
    /\ UNCHANGED train_vars

\* The statistics source accepts connections again.
Recover ==
    /\ stage = "serving"
    /\ ~source_up
    /\ source_up' = TRUE
    /\ UNCHANGED <<stage, model, matches, request, oracle, features,
                   match_result, locals, response>>
    /\ UNCHANGED train_vars

\* TeamAgnosticPredictor.predict, one whole call.  The environment's
\* choices (which reads raise, what the network returns) are drawn only on
\* the paths that reach them.
Predict ==
    /\ stage = "serving"
    /\ \E home_team_id \in Teams, names \in ServiceNames, failing \in Faults,
          raw \in [a : ServiceGoals, b : ServiceGoals] :
         LET away_team_id == CHOOSE t \in Teams : t # home_team_id
             path         == PredictPath(home_team_id, away_team_id, failing)
             reads_made   == source_up /\ path # "international"
             scored       == path = "learned"
             home_has     == FinishedBefore(home_team_id) > 0
             away_has     == FinishedBefore(away_team_id) > 0
             team_a_name  == NameOr(names.home, "Home Team")
             team_b_name  == NameOr(names.away, "Away Team")
         IN  /\ reads_made \/ failing = {}
             /\ scored \/ raw = [a |-> 0, b |-> 0]
             /\ request' = [home_team_id   |-> home_team_id,
                            away_team_id   |-> away_team_id,
                            home_team_name |-> names.home,
                            away_team_name |-> names.away,
                            source_up      |-> source_up,
                            failing        |-> failing,
                            path           |-> path]
             /\ IF reads_made
                THEN \E h \in ExtractFeaturesForTeam(ReplyFor(home_has, away_has),
                                                     ReplyFor(away_has, home_has),
                                                     TRUE, failing),
                        a \in ExtractFeaturesForTeam(ReplyFor(away_has, home_has),
                                                     ReplyFor(home_has, away_has),
                                                     FALSE, failing) :
                         features' = [home |-> h, away |-> a]
                ELSE features' = Unbound
             /\ IF scored
                THEN /\ oracle' = raw
                     /\ locals' = ResolveOutcome(ClampGoals(raw.a), ClampGoals(raw.b),
                                                 team_a_name, team_b_name)
                     /\ match_result' \in PredictMatch(raw.a, raw.b,
                                                       team_a_name, team_b_name)
                     /\ response' \in LearnedResponse(match_result',
                                                      features'.home.features,
                                                      features'.away.features,
                                                      names.home, names.away)
                ELSE /\ oracle' = Unbound
                     /\ locals' = Unbound
                     /\ match_result' = Unbound
                     /\ response' \in
                          IF path = "international"
                          THEN PredictInternationalMatch(names.home, names.away)
                          ELSE {FallbackPrediction}
    /\ stage' = "answered"
    /\ UNCHANGED <<model, source_up, matches>>
    /\ UNCHANGED train_vars

\* The caller takes the dict predict returned; the values of the call are
\* gone and the service waits for the next request.
Deliver ==
    /\ stage = "answered"
    /\ stage' = "serving"
    /\ request' = Unbound
    /\ oracle' = Unbound
    /\ features' = Unbound
    /\ match_result' = Unbound
    /\ locals' = Unbound
    /\ response' = Unbound
    /\ UNCHANGED <<model, source_up, matches>>
    /\ UNCHANGED train_vars

Next == Construct \/ Outage \/ Recover \/ Predict \/ Deliver

Spec == Init /\ [][Next]_vars


\* ------------------------------------------------ feature derivation alone
\* extract_features_for_team under every small set of failing reads.
InitFeatures ==
    /\ stage = "deriving"
    /\ \E team_has, opponent_has, is_at_venue \in BOOLEAN, failing \in Faults :
           request = [team        |-> ReplyFor(team_has, opponent_has),
                      opponent    |-> ReplyFor(opponent_has, team_has),
                      is_at_venue |-> is_at_venue,
                      failing     |-> failing]
    /\ model = NoValue
    /\ source_up = TRUE
    /\ matches = {}
    /\ oracle = Unbound
    /\ features = Unbound
    /\ match_result = Unbound
    /\ locals = Unbound
    /\ response = Unbound
    /\ NoTraining

ExtractFeatures ==
    /\ stage = "deriving"
    /\ features' \in ExtractFeaturesForTeam(request.team, request.opponent,
                                           request.is_at_venue, request.failing)
    /\ stage' = "derived"
    /\ UNCHANGED <<model, source_up, matches, request, oracle, match_result,
                   locals, response>>
    /\ UNCHANGED train_vars

NextFeatures == ExtractFeatures

SpecFeatures == InitFeatures /\ [][NextFeatures]_vars

\* ------------------------------------------------ extract_match_features
\* The statistics of a team as the queries of extract_features_for_team
\* return them: the quality row (none, 3 wins in 7, 1 win in 32 level on
\* goals), the days since its last finished match before the date (none,
\* or 0 .. MaxDaysSince), and a side of a shared history.
MaxDaysSince == 20

QualityRows ==
    { NoHistoryReply.quality, HistoryReply.quality,
      [total_matches |-> 32, wins |-> 1,
       avg_goals_scored |-> 100, avg_goals_conceded |-> 100] }

\* The head-to-head rows of the two teams of a pair: no shared match in
\* the window, a level record, or a record the first team leads.
SharedHistories ==
    { [a |-> NoHistoryReply.h2h, b |-> NoHistoryReply.h2h],
      [a |-> [goals_scored_avg |-> 100, goals_conceded_avg |-> 100,
              win_rate |-> 50],
       b |-> [goals_scored_avg |-> 100, goals_conceded_avg |-> 100,
              win_rate |-> 50]],
      [a |-> HistoryReply.h2h,
       b |-> [goals_scored_avg |-> 50, goals_conceded_avg |-> 150,
              win_rate |-> 25]] }

StatReply(quality, last_match_days, h2h) ==
    IF quality.total_matches = 0 /\ last_match_days = Null
    THEN [NoHistoryReply EXCEPT !.h2h = h2h]
    ELSE [HistoryReply EXCEPT !.quality = quality,
                              !.last_match_days = last_match_days,
                              !.h2h = h2h]

DaysSince == {Null} \cup 0 .. MaxDaysSince

\* extract_match_features with ExtractMatchFeatures's second call
\* marking the travelling team's form down.
ExtractMatchFeaturesAwayPenalty(team_a, team_b) ==
    { [raised          |-> FALSE,
       team_a_features |-> FeatureDict(team_a, team_b, TRUE,
                                       q[team_a.quality], q[team_b.quality]),
       team_b_features |-> [FeatureDict(team_b, team_a, FALSE,
                                        q[team_b.quality], q[team_a.quality])
                              EXCEPT !.team_form_last_5 = (@ * 85) \div 100]] :
      q \in QualityResolutions({team_a.quality, team_b.quality}) }

\* extract_match_features: the first team at the venue, the second not.
ExtractMatchFeatures(team_a, team_b) ==
    { [raised          |-> FALSE,
       team_a_features |-> FeatureDict(team_a, team_b, TRUE,
                                       q[team_a.quality], q[team_b.quality]),
       team_b_features |-> FeatureDict(team_b, team_a, FALSE,
                                       q[team_b.quality], q[team_a.quality])] :
      q \in QualityResolutions({team_a.quality, team_b.quality}) }

InitPair ==
    /\ stage = "pairing"
    /\ \E qa, qb \in QualityRows, da, db \in DaysSince, h \in SharedHistories :
         request = [team_a |-> StatReply(qa, da, h.a),
                    team_b |-> StatReply(qb, db, h.b)]
    /\ source_up \in BOOLEAN
    /\ model = NoValue
    /\ matches = {}
    /\ oracle = Unbound
    /\ features = Unbound
    /\ match_result = Unbound
    /\ locals = Unbound
    /\ response = Unbound
    /\ NoTraining

\* One call of extract_match_features: the first get_db_connection raises
\* when the source refuses connections, and nothing catches it.
ExtractPair ==
    /\ stage = "pairing"
    /\ features' \in IF source_up
                     THEN ExtractMatchFeatures(request.team_a, request.team_b)
                     ELSE { [raised |-> TRUE, at |-> FirstFailure(Reads)] }
    /\ stage' = "paired"
    /\ UNCHANGED <<model, source_up, matches, request, oracle, match_result,
                   locals, response>>
    /\ UNCHANGED train_vars

NextPair == ExtractPair

SpecPair == InitPair /\ [][NextPair]_vars

\* ------------------------------------------------ outcome resolution
\* The learned path from the two network outputs on: predict_match, then
\* predict's formatting of the response.  Raw network outputs are
\* GoalGrid * i hundredths of a goal, i in -1 .. MaxGoalIndex.
ResolveNames == { [home |-> NoValue, away |-> NoValue],
                  [home |-> "Brazil", away |-> "Haiti"] }

InitResolve ==
    /\ stage = "scored"
    /\ oracle \in [a : OracleOutputs, b : OracleOutputs]
    /\ request \in ResolveNames
    /\ model = "fitted"
    /\ source_up = TRUE
    /\ matches = {}
    /\ features \in { [home |-> h, away |-> a] :
                       h \in FeatureVectors(HistoryReply, HistoryReply, TRUE),
                       a \in FeatureVectors(HistoryReply, HistoryReply, FALSE) }
    /\ match_result = Unbound
    /\ locals = Unbound
    /\ response = Unbound
    /\ NoTraining

PredictLearned ==
    /\ stage = "scored"
    /\ LET team_a_name == NameOr(request.home, "Home Team")
           team_b_name == NameOr(request.away, "Away Team")
       IN  /\ locals' = ResolveOutcome(ClampGoals(oracle.a), ClampGoals(oracle.b),
                                       team_a_name, team_b_name)
           /\ match_result' \in PredictMatch(oracle.a, oracle.b,
                                             team_a_name, team_b_name)
    /\ response' \in LearnedResponse(match_result', features.home, features.away,
                                      request.home, request.away)
    /\ stage' = "answered"
    /\ UNCHANGED <<model, source_up, matches, request, oracle, features>>
    /\ UNCHANGED train_vars

NextResolve == PredictLearned

SpecResolve == InitResolve /\ [][NextResolve]_vars

\* ------------------------------------------------ insight generation
\* _generate_insights on its own: the two feature dicts of a pair of
\* teams (none, a season, or one win in 32 behind them), the dict of
\* predict_match for two network outputs a fifth of a goal apart or
\* more, and the two names as predict received them.
InsightTeams ==
    { NoHistoryReply, WithoutSharedHistory(HistoryReply),
      StatReply([total_matches |-> 32, wins |-> 1, avg_goals_scored |-> 100,
                 avg_goals_conceded |-> 100], 20, NoHistoryReply.h2h) }

InsightGoals == { g \in OracleOutputs : g >= 0 /\ g % 20 = 0 }

InitInsights ==
    /\ stage = "resolved"
    /\ request \in ResolveNames
    /\ \E team_a, team_b \in InsightTeams :
         \E pair \in ExtractMatchFeatures(team_a, team_b) :
            features = [home |-> pair.team_a_features,
                        away |-> pair.team_b_features]
    /\ oracle \in [a : InsightGoals, b : InsightGoals]
    /\ match_result \in PredictMatch(oracle.a, oracle.b,
                                     NameOr(request.home, "Home Team"),
                                     NameOr(request.away, "Away Team"))
    /\ model = "fitted"
    /\ source_up = TRUE
    /\ matches = {}
    /\ locals = Unbound
    /\ response = Unbound
    /\ NoTraining

Explain ==
    /\ stage = "resolved"
    /\ \E insights \in GenerateInsights(features.home, features.away,
                                        match_result, request.home,
                                        request.away) :
         response' = [insights |-> insights]
    /\ stage' = "explained"
    /\ UNCHANGED <<model, source_up, matches, request, oracle, features,
                   match_result, locals>>
    /\ UNCHANGED train_vars

NextInsights == Explain

SpecInsights == InitInsights /\ [][NextInsights]_vars

\* ------------------------------------------------ rating fallback alone
\* Names a request can carry: every name of the table, a name that is not
\* in it, and no name at all.
RatingNames == DOMAIN EloRatings \cup {"Atlantis", NoValue}

InitRating ==
    /\ stage = "unrated"
    /\ request \in [home : RatingNames, away : RatingNames]
    /\ model = NoValue
    /\ source_up = TRUE
    /\ matches = {}
    /\ oracle = Unbound
    /\ features = Unbound
    /\ match_result = Unbound
    /\ locals = Unbound
    /\ response = Unbound
    /\ NoTraining

PredictInternational ==
    /\ stage = "unrated"
    /\ response' \in PredictInternationalMatch(request.home, request.away)
    /\ stage' = "answered"
    /\ UNCHANGED <<model, source_up, matches, request, oracle, features,
                   match_result, locals>>
    /\ UNCHANGED train_vars

NextRating == PredictInternational

SpecRating == InitRating /\ [][NextRating]_vars

\* ------------------------------------------------ quality rating alone
\* TeamAgnosticTrainer._get_team_quality on the row of its query (columns
\* total, wins, goals_scored, goals_conceded): the computation of
\* _get_team_quality_rating, statement for statement.
GetTeamQuality(row) ==
    IF row.total_matches = 0 THEN {5000}
    ELSE
        LET goal_diff  == IF row.avg_goals_scored \in {Null, 0} THEN 0
                          ELSE row.avg_goals_scored - row.avg_goals_conceded
            goal_score == Min(10000, Max(0, 5000 + goal_diff * 10))
        IN  RoundChoices(60000 * row.wins + 4 * goal_score * row.total_matches,
                         10 * row.total_matches)

\* Matches of a team inside the 365-day window.
MaxSeason == 4

\* Goals by which a match is won or lost.
MaxMargin == 3

\* The rows the quality query returns for seasons of `wins` wins by g-0,
\* `draws` goalless draws and `losses` defeats by 0-h, when the two
\* averages are whole hundredths of a goal.
SeasonRows ==
    { [total_matches      |-> w + d + l,
       wins               |-> w,
       avg_goals_scored   |-> (100 * g * w) \div (w + d + l),
       avg_goals_conceded |-> (100 * h * l) \div (w + d + l)] :
      <<w, d, l, g, h>> \in
        { t \in (0 .. MaxSeason) \X (0 .. MaxSeason) \X (0 .. MaxSeason)
                \X (1 .. MaxMargin) \X (1 .. MaxMargin) :
            /\ t[1] + t[2] + t[3] \in 1 .. MaxSeason
            /\ (100 * t[4] * t[1]) % (t[1] + t[2] + t[3]) = 0
            /\ (100 * t[5] * t[3]) % (t[1] + t[2] + t[3]) = 0 } }

InitQuality ==
    /\ stage = "querying"
    /\ request \in [row : SeasonRows, caller : {"engineer", "trainer"}]
    /\ source_up = TRUE
    /\ model = NoValue
    /\ matches = {}
    /\ oracle = Unbound
    /\ features = Unbound
    /\ match_result = Unbound
    /\ locals = Unbound
    /\ response = Unbound
    /\ NoTraining

\* The rating computed from the row that came back.
RateQuality ==
    /\ stage = "querying"
    /\ \E rating \in IF request.caller = "engineer"
                     THEN GetTeamQualityRating(request.row)
                     ELSE GetTeamQuality(request.row) :
         features' = [team_quality_rating |-> rating]
    /\ stage' = "rated"
    /\ UNCHANGED <<model, source_up, matches, request, oracle, match_result,
                   locals, response>>
    /\ UNCHANGED train_vars

NextQuality == RateQuality

SpecQuality == InitQuality /\ [][NextQuality]_vars

\* ------------------------------------------------ form alone
\* Finished matches of a team before the date, most recent first, each
\* won ("W"), drawn ("D") or lost ("L").
MaxHistory == 6

RECURSIVE PointsOf(_, _)
\* Points of the first n matches of a history: win 3, draw 1, loss 0.
PointsOf(history, n) ==
    IF n = 0 THEN 0
    ELSE PointsOf(history, n - 1)
         + (CASE history[n] = "W" -> 3 [] history[n] = "D" -> 1 [] OTHER -> 0)

\* points / (3 * matches) over the first min(n, Len) matches, in
\* hundredths; NULL over no match.
FormOver(history, n) ==
    LET k == Min(n, Len(history))
    IN  IF k = 0 THEN Null ELSE (100 * PointsOf(history, k)) \div (3 * k)

\* The histories whose form scores over 5, over 10 and over all matches
\* are whole hundredths.
FormHistories ==
    { h \in UNION { [1 .. n -> {"W", "D", "L"}] : n \in 0 .. MaxHistory } :
        \A n \in {5, 10, Len(h)} :
            LET k == Min(n, Len(h))
            IN  k > 0 => (100 * PointsOf(h, k)) % (3 * k) = 0 }

\* form_score of query_5 and of query_10 in _get_team_form.  Both are
\* one aggregate over every row of the WHERE clause; ORDER BY and LIMIT
\* come after the aggregation and act on its single row.
FormScoreQuery(history, limit) == FormOver(history, Len(history))

\* The row of the query of _get_form_stats: recent_matches numbers the
\* rows from the most recent and LIMIT 10 keeps ten of them.
FormStatsQuery(history) ==
    [form_5 |-> FormOver(history, 5), form_10 |-> FormOver(history, 10)]

\* TeamAgnosticTrainer._get_form_stats on the row of its query.
GetFormStats(row) ==
    LET form_5  == IF row.form_5 \in {Null, 0} THEN 50 ELSE row.form_5
        form_10 == IF row.form_10 \in {Null, 0} THEN 50 ELSE row.form_10
    IN  [form_5 |-> form_5, form_10 |-> form_10, momentum |-> form_5 - form_10]

InitForm ==
    /\ stage = "querying"
    /\ request \in [history : FormHistories, caller : {"engineer", "trainer"}]
    /\ source_up = TRUE
    /\ model = NoValue
    /\ matches = {}
    /\ oracle = Unbound
    /\ features = Unbound
    /\ match_result = Unbound
    /\ locals = Unbound
    /\ response = Unbound
    /\ NoTraining

\* _get_team_form or _get_form_stats on the history of the request.  The
\* queries of _get_team_form order an ungrouped aggregate by m.utc_date:
\* a server that rejects this makes the read raise, one that accepts it
\* returns the aggregate.
GetForm ==
    /\ stage = "querying"
    /\ IF request.caller = "trainer"
       THEN features' = [raised |-> FALSE,
                         form   |-> GetFormStats(FormStatsQuery(request.history))]
       ELSE \E accepted \in BOOLEAN :
              features' =
                IF accepted
                THEN [raised |-> FALSE,
                      form   |-> GetTeamForm(FormScoreQuery(request.history, 5),
                                             FormScoreQuery(request.history, 10))]
                ELSE [raised |-> TRUE, at |-> "team_form"]
    /\ stage' = "formed"
    /\ UNCHANGED <<model, source_up, matches, request, oracle, match_result,
                   locals, response>>
    /\ UNCHANGED train_vars

NextForm == GetForm

SpecForm == InitForm /\ [][NextForm]_vars

\* ------------------------------------------------ MatchPredictor
\* The statistics-based predictor of predictor.py.  Form and win rate are
\* hundredths, goal averages tenths of a goal; the base values are
\* ten-thousandths.

\* MatchBases without the 0.05 taken from away_base.
MatchBasesNoAwayPenalty(home_stats, away_stats) ==
    LET form_diff    == home_stats.form - away_stats.form
        goals_diff   == home_stats.goals_avg - away_stats.goals_avg
        defense_diff == away_stats.conceded_avg - home_stats.conceded_avg
        shift        == form_diff * 30 + goals_diff * 80 + defense_diff * 60
    IN  [home_base |-> 4000 + shift + 1200,
         draw_base |-> 2700,
         away_base |-> 3300 - shift]

\* home_base, draw_base and away_base before the normalization.
MatchBases(home_stats, away_stats) ==
    LET form_diff    == home_stats.form - away_stats.form
        goals_diff   == home_stats.goals_avg - away_stats.goals_avg
        defense_diff == away_stats.conceded_avg - home_stats.conceded_avg
        shift        == form_diff * 30 + goals_diff * 80 + defense_diff * 60
    IN  [home_base |-> 4000 + shift + 1200,
         draw_base |-> 2700,
         away_base |-> 3300 - shift - 500]

\* The normalization and the renormalization: the three probabilities as
\* numerators over 100 * total, their sum `norm` (the second total), and
\* the three quotients in millionths, rounded down.
MatchProbabilities(b) ==
    LET total == b.home_base + b.draw_base + b.away_base
        home  == Max(10 * total, Min(75 * total, 100 * b.home_base))
        away  == Max(10 * total, Min(75 * total, 100 * b.away_base))
        draw  == Max(15 * total, 100 * total - home - away)
        norm  == home + draw + away
    IN  [total |-> total, home |-> home, draw |-> draw, away |-> away,
         norm |-> norm,
         home_win_prob |-> Ratio(home, norm),
         draw_prob     |-> Ratio(draw, norm),
         away_win_prob |-> Ratio(away, norm)]

\* "Determine predicted outcome"
MatchOutcome(p) ==
    LET max_prob == Max3(p.away, p.draw, p.home)
    IN  IF max_prob = p.home THEN "HOME_WIN"
        ELSE IF max_prob = p.away THEN "AWAY_WIN"
        ELSE "DRAW"

StatsVersion == "v1.1.0-stats-based"

\* The dicts MatchPredictor.predict can return on the stats of the two
\* teams.
MatchPredict(home_stats, away_stats) ==
    LET p          == MatchProbabilities(MatchBases(home_stats, away_stats))
        max_prob   == Max3(p.away_win_prob, p.draw_prob, p.home_win_prob)
        min_prob   == Min(p.away_win_prob, Min(p.draw_prob, p.home_win_prob))
        confidence == Min(950000, 500000 + (max_prob - min_prob))
    IN  { [home_win_probability |-> h,
           draw_probability     |-> d,
           away_win_probability |-> a,
           predicted_outcome    |-> MatchOutcome(p),
           confidence_score     |-> c,
           model_version        |-> StatsVersion] :
          h \in RoundChoices(p.home_win_prob, 1000),
          d \in RoundChoices(p.draw_prob, 1000),
          a \in RoundChoices(p.away_win_prob, 1000),
          c \in RoundChoices(confidence, 1000) }

\* What get_team_stats returns: the defaults of a team without a finished
\* match, or the shares and averages over its last matches (form and
\* win_rate are the same quotient).
FormShares == {0, 20, 50, 80, 100}

GoalAverages == {0, 8, 15, 32}

TeamStatistics ==
    { [form |-> 50, goals_avg |-> 15, conceded_avg |-> 15, win_rate |-> 33] }
    \cup { [form |-> f, goals_avg |-> g, conceded_avg |-> c, win_rate |-> f] :
           f \in FormShares, g \in GoalAverages, c \in GoalAverages }

InitStats ==
    /\ stage = "stats"
    /\ request \in [home_stats : TeamStatistics, away_stats : TeamStatistics]
    /\ source_up = TRUE
    /\ model = NoValue
    /\ matches = {}
    /\ oracle = Unbound
    /\ features = Unbound
    /\ match_result = Unbound
    /\ locals = Unbound
    /\ response = Unbound
    /\ NoTraining

\* MatchPredictor.predict from the statistics of the two teams on.
PredictFromStats ==
    /\ stage = "stats"
    /\ locals' = MatchProbabilities(MatchBases(request.home_stats,
                                               request.away_stats))
    /\ response' \in MatchPredict(request.home_stats, request.away_stats)
    /\ stage' = "answered"
    /\ UNCHANGED <<model, source_up, matches, request, oracle, features,
                   match_result>>
    /\ UNCHANGED train_vars

NextStats == PredictFromStats

SpecStats == InitStats /\ [][NextStats]_vars

\* ------------------------------------------------ training features
\* TeamAgnosticTrainer._extract_team_features on the replies of the
\* statistics source.  Its values are ten-thousandths (1.575 = 15750), a
\* hundred to each hundredth of the inference dict.

\* The keys of the dict extract_features_for_team returns, as inserted.
FeatureNames ==
    << "team_quality_rating", "opponent_quality_rating",
       "team_xg_per_game", "team_goals_per_game", "team_shots_per_game",
       "team_striker_xg", "team_playmaker_assists",
       "team_formation_attack", "team_pressing_intensity",
       "team_possession_avg", "opponent_xg_conceded",
       "opponent_goals_conceded", "opponent_defensive_rating",
       "opponent_goalkeeper_save_pct", "opponent_tackles_per_game",
       "opponent_formation_defense", "venue_factor", "rest_days",
       "travel_distance", "injury_impact", "h2h_goals_scored_avg",
       "h2h_goals_conceded_avg", "h2h_win_rate", "team_form_last_5",
       "team_form_last_10", "team_momentum", "opponent_form_last_5",
       "coach_win_rate", "tactical_matchup_score", "quality_difference",
       "attack_vs_defense" >>

\* The keys of the dict _extract_team_features returns, as inserted.
TrainerFeatureNames ==
    << "team_quality_rating", "opponent_quality_rating",
       "team_xg_per_game", "team_goals_per_game", "team_shots_per_game",
       "team_striker_xg", "team_playmaker_assists",
       "team_formation_attack", "team_pressing_intensity",
       "team_possession_avg", "opponent_xg_conceded",
       "opponent_goals_conceded", "opponent_defensive_rating",
       "opponent_goalkeeper_save_pct", "opponent_tackles_per_game",
       "opponent_formation_defense", "venue_factor", "rest_days",
       "travel_distance", "injury_impact", "h2h_goals_scored_avg",
       "h2h_goals_conceded_avg", "h2h_win_rate", "team_form_last_5",
       "team_form_last_10", "team_momentum", "opponent_form_last_5",
       "coach_win_rate", "tactical_matchup_score", "quality_difference",
       "attack_vs_defense" >>

\* _get_attacking_stats on the row of its query.
GetAttackingStats(row) ==
    LET goals_pg == IF row.goals_per_game \in {Null, 0} THEN 150
                    ELSE row.goals_per_game
    IN  [derived_xg          |-> goals_pg * 105,
         goals_per_game      |-> goals_pg * 100,
         shots_per_game      |-> goals_pg * 800,
         top_scorer_rate     |-> goals_pg * 40,
         assists_per_game    |-> goals_pg * 70,
         attack_rating       |-> Min(100000, goals_pg * 300),
         pressing_score      |-> 50000,
         possession_estimate |-> 500000]

\* _get_defensive_stats on the row of its query.
GetDefensiveStats(row) ==
    LET goals_conceded == IF row.goals_conceded_per_game \in {Null, 0} THEN 150
                          ELSE row.goals_conceded_per_game
    IN  [derived_xg_conceded     |-> goals_conceded * 105,
         goals_conceded_per_game |-> goals_conceded * 100,
         defense_rating          |-> Max(0, 100000 - goals_conceded * 300),
         save_rate               |-> Max(5000, 8000 - goals_conceded * 10),
         tackles_estimate        |-> 150000,
         defense_formation_score |-> 50000]

\* _get_rest_days on the days since the last match.
GetRestDays(last_match_days) ==
    IF last_match_days # Null THEN 10000 * Min(last_match_days, 14) ELSE 70000

\* _get_h2h_stats on the row of its query.
GetH2hStats(row) ==
    IF row.goals_scored_avg # Null THEN
        [goals_scored   |-> row.goals_scored_avg * 100,
         goals_conceded |-> row.goals_conceded_avg * 100,
         win_rate       |-> IF row.win_rate \in {Null, 0} THEN 5000
                            ELSE row.win_rate * 100]
    ELSE [goals_scored |-> 15000, goals_conceded |-> 15000, win_rate |-> 5000]

\* The dict _extract_team_features builds, given the values its two
\* _get_team_quality calls return (hundredths).
ExtractTeamFeatures(team, opponent, is_at_venue, team_quality, opponent_quality) ==
    LET team_attack      == GetAttackingStats(team.attack)
        opponent_defense == GetDefensiveStats(opponent.defense)
        h2h              == GetH2hStats(team.h2h)
        form             == GetFormStats([form_5 |-> team.form_5,
                                          form_10 |-> team.form_10])
        opponent_form    == GetFormStats([form_5 |-> opponent.form_5,
                                          form_10 |-> opponent.form_10])
    IN  [team_quality_rating          |-> team_quality * 100,
         opponent_quality_rating      |-> opponent_quality * 100,
         team_xg_per_game             |-> team_attack.derived_xg,
         team_goals_per_game          |-> team_attack.goals_per_game,
         team_shots_per_game          |-> team_attack.shots_per_game,
         team_striker_xg              |-> team_attack.top_scorer_rate,
         team_playmaker_assists       |-> team_attack.assists_per_game,
         team_formation_attack        |-> team_attack.attack_rating,
         team_pressing_intensity      |-> team_attack.pressing_score,
         team_possession_avg          |-> team_attack.possession_estimate,
         opponent_xg_conceded         |-> opponent_defense.derived_xg_conceded,
         opponent_goals_conceded      |-> opponent_defense.goals_conceded_per_game,
         opponent_defensive_rating    |-> opponent_defense.defense_rating,
         opponent_goalkeeper_save_pct |-> opponent_defense.save_rate,
         opponent_tackles_per_game    |-> opponent_defense.tackles_estimate,
         opponent_formation_defense   |-> opponent_defense.defense_formation_score,
         venue_factor                 |-> IF is_at_venue THEN 10000 ELSE 8500,
         rest_days                    |-> GetRestDays(team.last_match_days),
         travel_distance              |-> IF is_at_venue THEN 0 ELSE 2000000,
         injury_impact                |-> 0,
         h2h_goals_scored_avg         |-> h2h.goals_scored,
         h2h_goals_conceded_avg       |-> h2h.goals_conceded,
         h2h_win_rate                 |-> h2h.win_rate,
         team_form_last_5             |-> form.form_5 * 100,
         team_form_last_10            |-> form.form_10 * 100,
         team_momentum                |-> form.momentum * 100,
         opponent_form_last_5         |-> opponent_form.form_5 * 100,
         coach_win_rate               |-> 5000,
         tactical_matchup_score       |-> 50000,
         quality_difference           |-> (team_quality - opponent_quality) * 100,
         attack_vs_defense            |-> team_attack.derived_xg
                                          - opponent_defense.derived_xg_conceded]

\* A dict of hundredths in ten-thousandths; a null stays null.
InFine(dict) ==
    [k \in DOMAIN dict |-> IF dict[k] = Null THEN Null ELSE dict[k] * 100]

InitSample ==
    /\ stage = "sampling"
    /\ \E qa, qb \in QualityRows, da \in DaysSince, h \in SharedHistories,
          is_at_venue \in BOOLEAN :
         request = [team        |-> StatReply(qa, da, h.a),
                    opponent    |-> StatReply(qb, da, h.b),
                    is_at_venue |-> is_at_venue]
    /\ source_up = TRUE
    /\ model = NoValue
    /\ matches = {}
    /\ oracle = Unbound
    /\ features = Unbound
    /\ match_result = Unbound
    /\ locals = Unbound
    /\ response = Unbound
    /\ NoTraining

\* The two derivations for the same team, opponent, date and venue flag
\* over the same statistics, every read returning; a quality row is
\* rated alike by the two (the same statements on the same numbers).
DeriveBoth ==
    /\ stage = "sampling"
    /\ \E q \in QualityResolutions({request.team.quality,
                                    request.opponent.quality}) :
         /\ q[request.team.quality] \in GetTeamQuality(request.team.quality)
         /\ q[request.opponent.quality]
              \in GetTeamQuality(request.opponent.quality)
         /\ features' =
              [inference |-> FeatureDict(request.team, request.opponent,
                                         request.is_at_venue,
                                         q[request.team.quality],
                                         q[request.opponent.quality]),
               training  |-> ExtractTeamFeatures(request.team, request.opponent,
                                                 request.is_at_venue,
                                                 q[request.team.quality],
                                                 q[request.opponent.quality])]
    /\ stage' = "sampled"
    /\ UNCHANGED <<model, source_up, matches, request, oracle, match_result,
                   locals, response>>
    /\ UNCHANGED train_vars

NextSample == DeriveBoth

SpecSample == InitSample /\ [][NextSample]_vars

\* ------------------------------------------------ predict and the clock
\* predict takes no date: match_date is datetime.now() on the day of the
\* call.  Days on which a call is made (the rows of `matches` are dated
\* relative to day 0).
MaxClock == 1

ClockGoals == { g \in ServiceGoals : g \in 100 .. 200 }

\* The finished rows the feature queries of a call made on match_date see
\* (m.utc_date < match_date).
RowsBefore(team_id, match_date) ==
    { m \in matches : m.team = team_id /\ m.status = "FINISHED"
                                       /\ m.day < match_date }

\* The replies to the reads about a team on match_date.  The count and
\* the wins of _get_team_quality_rating and the last match of
\* _calculate_rest_days are taken over RowsBefore: the matches before day
\* 0 were, in pairs, a 2-0 win and a 0-2 defeat, an odd one out drawn
\* 1-1, and a match on day 0 was drawn 1-1, so a team averages one goal
\* scored and one conceded.  Kick-offs are after midnight, so the whole
\* days from the last match to match_date (Timedelta.days) are one fewer
\* than the dates are apart.
ReplyOn(team_id, opponent_id, match_date) ==
    LET rows == RowsBefore(team_id, match_date)
        last == CHOOSE m \in rows : \A n \in rows : n.day <= m.day
        seen == [HistoryReply EXCEPT
                   !.quality = [total_matches      |-> Cardinality(rows),
                                wins               |->
                                    Cardinality(RowsBefore(team_id, 0)) \div 2,
                                avg_goals_scored   |-> 100,
                                avg_goals_conceded |-> 100],
                   !.attack.goals_per_game = 100,
                   !.defense.goals_conceded_per_game = 100,
                   !.last_match_days = match_date - last.day - 1]
    IN  IF rows = {} THEN NoHistoryReply
        ELSE IF RowsBefore(opponent_id, match_date) = {}
            THEN WithoutSharedHistory(seen)
        ELSE seen

\* What predict can do with a request record r (its arguments, its path
\* and the replies its reads return): the values it passes through and
\* the dict it returns, one per output of the network and per way the
\* roundings can fall.
PredictOutcomes(r) ==
    LET team_a_name == NameOr(r.home_team_name, "Home Team")
        team_b_name == NameOr(r.away_team_name, "Away Team")
        scored      ==
            { [h |-> h, a |-> a, raw |-> raw] :
              h \in ExtractFeaturesForTeam(r.home_reply, r.away_reply, TRUE, {}),
              a \in ExtractFeaturesForTeam(r.away_reply, r.home_reply, FALSE, {}),
              raw \in [a : ClockGoals, b : ClockGoals] }
    IN  IF r.path = "learned"
        THEN UNION { UNION { { [features     |-> [home |-> c.h, away |-> c.a],
                                oracle       |-> c.raw,
                                locals       |-> ResolveOutcome(
                                                   ClampGoals(c.raw.a),
                                                   ClampGoals(c.raw.b),
                                                   team_a_name, team_b_name),
                                match_result |-> result,
                                response     |-> dict] :
                               dict \in LearnedResponse(result, c.h.features,
                                                        c.a.features,
                                                        r.home_team_name,
                                                        r.away_team_name) } :
                             result \in PredictMatch(c.raw.a, c.raw.b,
                                                     team_a_name, team_b_name) } :
                     c \in scored }
        ELSE { [features     |-> Unbound,
                oracle       |-> Unbound,
                locals       |-> Unbound,
                match_result |-> Unbound,
                response     |-> dict] :
               dict \in PredictInternationalMatch(r.home_team_name,
                                                  r.away_team_name) }

InitClock ==
    /\ stage = "serving"
    /\ model = "fitted"
    /\ source_up = TRUE
    /\ \E p1, p2 \in 0 .. MaxFinished, t1, t2 \in 0 .. MaxToday :
           matches = RowsOf(1, p1, t1) \cup RowsOf(2, p2, t2)
    /\ request = Unbound
    /\ oracle = Unbound
    /\ features = Unbound
    /\ match_result = Unbound
    /\ locals = Unbound
    /\ response = Unbound
    /\ NoTraining

\* predict, called on the day match_date with every read returning; the
\* clock does not run backwards, and the dict of the call before stays
\* with the caller until this one returns.
PredictAt ==
    /\ stage \in {"serving", "answered"}
    /\ \E home_team_id \in Teams, names \in ServiceNames,
          match_date \in 0 .. MaxClock :
         LET away_team_id == CHOOSE t \in Teams : t # home_team_id
         IN  /\ request # Unbound => match_date >= request.match_date
             /\ request' =
                  [home_team_id   |-> home_team_id,
                   away_team_id   |-> away_team_id,
                   home_team_name |-> names.home,
                   away_team_name |-> names.away,
                   match_date     |-> match_date,
                   home_reply     |-> ReplyOn(home_team_id, away_team_id,
                                              match_date),
                   away_reply     |-> ReplyOn(away_team_id, home_team_id,
                                              match_date),
                   path           |-> PredictPath(home_team_id, away_team_id,
                                                  {})]
             /\ \E o \in PredictOutcomes(request') :
                  /\ features' = o.features
                  /\ oracle' = o.oracle
                  /\ locals' = o.locals
                  /\ match_result' = o.match_result
                  /\ response' = o.response
    /\ stage' = "answered"
    /\ UNCHANGED <<model, source_up, matches>>
    /\ UNCHANGED train_vars

NextClock == PredictAt

SpecClock == InitClock /\ [][NextClock]_vars

\* ------------------------------------------------ training samples
\* TeamAgnosticTrainer.prepare_training_data.  A row of matches_df carries,
\* besides its columns, how each of its two _extract_team_features calls
\* ends when it is made: "no" exception, an exception from
\* get_db_connection ("connect"), or one from a query ("read").
MaxCorpus == 2

ScorePairs == { <<0, 0>>, <<2, 1>>, <<1, 3>> }

Raises == {"no", "connect", "read"}

CorpusRow(i, scores, home_raises, away_raises) ==
    [match_id     |-> i,
     home_team_id |-> 1 + (i % 2),
     away_team_id |-> 2 - (i % 2),
     home_score   |-> scores[1],
     away_score   |-> scores[2],
     raises       |-> [home |-> home_raises, away |-> away_raises]]

Corpora ==
    UNION { { [i \in 1 .. n |-> CorpusRow(i, sc[i], hr[i], ar[i])] :
              sc \in [1 .. n -> ScorePairs],
              hr \in [1 .. n -> Raises],
              ar \in [1 .. n -> Raises] } : n \in 0 .. MaxCorpus }

\* The feature list of one _extract_team_features call, named by the call.
FeatureList(match, team_id, opponent_id, is_at_venue) ==
    [match_id |-> match.match_id, team_id |-> team_id,
     opponent_id |-> opponent_id, is_at_venue |-> is_at_venue]

\* One pass of the loop body over `match`: the samples and labels as the
\* try block leaves them, whether it ends normally or in the except clause.
TryMatch(match, X, y) ==
    IF match.raises.home # "no" THEN [X |-> X, y |-> y]
    ELSE
        LET X1 == Append(X, FeatureList(match, match.home_team_id,
                                        match.away_team_id, TRUE))
            y1 == Append(y, match.home_score)
        IN  IF match.raises.away # "no" THEN [X |-> X1, y |-> y1]
            ELSE [X |-> Append(X1, FeatureList(match, match.away_team_id,
                                               match.home_team_id, FALSE)),
                  y |-> Append(y1, match.away_score)]

\* The connections after one _extract_team_features call that ends as
\* `raises` says: get_db_connection raising opens none; conn.close() is the
\* last statement before the return, so a query raising leaves the
\* connection open.
AfterCall(c, raises) ==
    CASE raises = "no"      -> [opened |-> c.opened + 1, closed |-> c.closed + 1]
      [] raises = "connect" -> c
      [] raises = "read"    -> [opened |-> c.opened + 1, closed |-> c.closed]

\* The connections after the try block over `match`: the second call is
\* made when the first returned.
AfterMatch(c, match) ==
    IF match.raises.home # "no" THEN AfterCall(c, match.raises.home)
    ELSE AfterCall(AfterCall(c, "no"), match.raises.away)

InitTrain ==
    /\ stage = "loading"
    /\ corpus \in Corpora
    /\ cursor = 0
    /\ X_samples = << >>
    /\ y_samples = << >>
    /\ connections = NoConnections
    /\ source_up \in BOOLEAN
    /\ model = NoValue
    /\ matches = {}
    /\ request = Unbound
    /\ oracle = Unbound
    /\ features = Unbound
    /\ match_result = Unbound
    /\ locals = Unbound
    /\ response = Unbound

\* conn = self.get_db_connection(); matches_df = pd.read_sql(query, conn):
\* outside any try, so a refused connection ends the run with the exception.
LoadMatches ==
    /\ stage = "loading"
    /\ stage' = IF source_up THEN "extracting" ELSE "raised"
    /\ connections' = IF source_up THEN AfterCall(connections, "no")
                      ELSE connections
    /\ UNCHANGED <<model, source_up, matches, request, oracle, features,
                   match_result, locals, response>>
    /\ UNCHANGED <<corpus, cursor, X_samples, y_samples>>

\* ProcessMatch with the try block removed: the exception of a failing
\* derivation leaves prepare_training_data.
ProcessMatchAborting ==
    /\ stage = "extracting"
    /\ cursor < Len(corpus)
    /\ LET match == corpus[cursor + 1]
           after == TryMatch(match, X_samples, y_samples)
       IN  /\ X_samples' = after.X
           /\ y_samples' = after.y
           /\ stage' = IF match.raises.home = "no" /\ match.raises.away = "no"
                       THEN stage ELSE "raised"
           /\ connections' = AfterMatch(connections, match)
    /\ cursor' = cursor + 1
    /\ UNCHANGED <<model, source_up, matches, request, oracle, features,
                   match_result, locals, response, corpus>>

\* One iteration of `for idx, match in matches_df.iterrows()`.
ProcessMatch ==
    /\ stage = "extracting"
    /\ cursor < Len(corpus)
    /\ LET after == TryMatch(corpus[cursor + 1], X_samples, y_samples)
       IN  /\ X_samples' = after.X
           /\ y_samples' = after.y
    /\ connections' = AfterMatch(connections, corpus[cursor + 1])
    /\ cursor' = cursor + 1
    /\ UNCHANGED <<stage, model, source_up, matches, request, oracle, features,
                   match_result, locals, response, corpus>>

\* return X, y
ReturnSamples ==
    /\ stage = "extracting"
    /\ cursor = Len(corpus)
    /\ stage' = "done"
    /\ UNCHANGED <<model, source_up, matches, request, oracle, features,
                   match_result, locals, response>>
    /\ UNCHANGED train_vars

NextTrain == LoadMatches \/ ProcessMatch \/ ReturnSamples

SpecTrain == InitTrain /\ [][NextTrain]_vars

\* The call runs on one thread with nothing to wait for between its
\* statements: a step that can be taken is taken.
SpecTrainLive == SpecTrain /\ WF_vars(NextTrain)

\* ======================================================== properties
\* The three probabilities of a response, in hundredths.
ProbabilitySum(r) ==
    r.home_win_probability + r.draw_probability + r.away_win_probability

\* The win probabilities predict_match computes before the near-tie branch.
ComputedProbabilities ==
    WinProbabilities(ClampGoals(oracle.a) - ClampGoals(oracle.b))

\* C1 (SpecResolve): on the learned path the home-win, draw and away-win
\* probabilities of the response sum to 1 within 0.001, whatever the two
\* predicted goal values are.
C1_ProbabilitiesSumToOne ==
    stage = "answered" => Abs(10 * ProbabilitySum(response) - 1000) <= 1

\* C2 (SpecResolve): whenever the computed team_a_prob and team_b_prob
\* differ by less than 0.02, predict_match returns "Draw" as outcome and
\* as winner, whichever of the two is larger.
C2_NearTieIsDraw ==
    (stage = "answered"
        /\ Abs(ComputedProbabilities.a - ComputedProbabilities.b) < 20000)
    => /\ match_result.predicted_outcome = "Draw"
       /\ match_result.predicted_winner = "Draw"

\* A near tie with team_a_prob strictly the larger of the two that
\* was resolved to a draw.
C2_Witness ==
    /\ stage = "answered"
    /\ ComputedProbabilities.a > ComputedProbabilities.b
    /\ ComputedProbabilities.a - ComputedProbabilities.b < 20000
    /\ match_result.predicted_outcome = "Draw"

\* C3 (SpecResolve): whenever predict_match names a winner, the
\* confidence it returns lies in [0.5, 0.95].
C3_DecisiveConfidenceBounds ==
    (stage = "answered" /\ match_result.predicted_outcome # "Draw")
    => /\ match_result.confidence_score >= 50
       /\ match_result.confidence_score <= 95

\* A winner by three goals or more, whose confidence is the cap.
C3_Witness ==
    /\ stage = "answered"
    /\ oracle.b - oracle.a >= 300
    /\ match_result.predicted_outcome = "Haiti Win"
    /\ match_result.confidence_score = 95

\* C4 (SpecRating): when neither name is in the rating table, both teams
\* get the neutral rating 1700 and the prediction is "Draw" with a
\* confidence at the low end of the range (0.5 to 0.55).
C4_UnknownNamesDraw ==
    (stage = "answered"
        /\ request.home \notin DOMAIN EloRatings
        /\ request.away \notin DOMAIN EloRatings)
    => /\ response.key_features.home_elo = 1700
       /\ response.key_features.away_elo = 1700
       /\ response.predicted_outcome = "Draw"
       /\ response.confidence_score \in 50 .. 55

\* C5 (SpecRating): the confidence _predict_international_match returns
\* never exceeds 0.95, for names in the rating table or not.
C5_RatingConfidenceAtMost95 ==
    stage = "answered" => response.confidence_score <= 95

\* The widest rating gap of the table, home side stronger: the largest
\* confidence the path returns.
C5_Witness ==
    /\ stage = "answered"
    /\ request = [home |-> "Brazil", away |-> "Haiti"]
    /\ response.predicted_outcome = "Brazil Win"
    /\ response.confidence_score = 84

\* C6 (Spec): a request whose dispatch is reached goes to the rating
\* fallback exactly when each of the two teams has at most 5 finished
\* matches strictly before the date of the request.
C6_DispatchByHistoryBeforeDate ==
    (stage = "answered" /\ request.source_up)
    => (request.path = "international"
        <=> /\ FinishedBefore(request.home_team_id) <= 5
            /\ FinishedBefore(request.away_team_id) <= 5)

\* C7 (Spec): when the artifact did not load, every request the source
\* can serve is answered by the rating computation and tagged with a
\* version other than the learned model's.
C7_UnloadedModelUsesRatings ==
    (stage = "answered" /\ model = NoValue
        /\ request.source_up /\ request.failing = {})
    => /\ request.path = "international"
       /\ response.model_version = RatingVersion
       /\ response.model_version # LearnedVersion

\* C8 (Spec): predict ends in a request-level failure (the exception
\* leaves predict instead of a dict being returned) exactly when the
\* statistics source refuses connections.
C8_OutageIsRequestFailure ==
    stage = "answered" => (request.path = "raised" <=> ~request.source_up)

\* The fields a failed read leaves at their documented default.
DefaultsAfter(read, f) ==
    CASE read = "team_quality"     -> f.team_quality_rating = 5000
      [] read = "opponent_quality" -> f.opponent_quality_rating = 5000
      [] read = "attack"           -> /\ f.team_xg_per_game = 150
                                      /\ f.team_goals_per_game = 150
      [] read = "defense"          -> /\ f.opponent_xg_conceded = 150
                                      /\ f.opponent_goals_conceded = 150
      [] read = "rest_days"        -> f.rest_days = 700
      [] read = "injuries"         -> f.injury_impact = 0
      [] read = "h2h"              -> /\ f.h2h_goals_scored_avg = 150
                                      /\ f.h2h_goals_conceded_avg = 150
                                      /\ f.h2h_win_rate = 50
      [] read = "team_form"        -> /\ f.team_form_last_5 = 50
                                      /\ f.team_form_last_10 = 50
                                      /\ f.team_momentum = 0
      [] read = "opponent_form"    -> f.opponent_form_last_5 = 50
      [] read = "coach"            -> f.coach_win_rate = 50

\* C9 (SpecFeatures): when exactly one statistic read raises,
\* extract_features_for_team still returns a dict of 31 fields in which
\* the fields of that read hold their defaults; the exception does not
\* leave the call.
C9_FailedReadTakesDefault ==
    (stage = "derived" /\ Cardinality(request.failing) = 1)
    => /\ ~features.raised
       /\ Cardinality(DOMAIN features.features) = 31
       /\ \A read \in request.failing : DefaultsAfter(read, features.features)

\* Indices of the samples a row of the corpus contributed.
SamplesOf(i) == { k \in DOMAIN X_samples : X_samples[k].match_id = i }

\* C10 (SpecTrain): once prepare_training_data has gone through the
\* corpus, every row has contributed either no sample or exactly two
\* (home team at venue labelled with the home score, away team labelled
\* with the away score); a row with a failing derivation on either side
\* contributed none, so the samples number twice the rows without failure.
C10_TwoSamplesOrNone ==
    stage = "done" =>
    /\ \A i \in DOMAIN corpus :
         LET row == corpus[i]
             ks  == SamplesOf(i)
             ok  == row.raises.home = "no" /\ row.raises.away = "no"
         IN  /\ Cardinality(ks) = IF ok THEN 2 ELSE 0
             /\ \A k \in ks :
                  y_samples[k] = IF X_samples[k].is_at_venue
                                 THEN row.home_score ELSE row.away_score
    /\ Len(X_samples) =
         2 * Cardinality({ i \in DOMAIN corpus :
                             /\ corpus[i].raises.home = "no"
                             /\ corpus[i].raises.away = "no" })

\* The row of the corpus raised in neither of its two derivations.
Derivable(i) ==
    corpus[i].raises.home = "no" /\ corpus[i].raises.away = "no"

\* The two samples of row i stand next to each other in the returned
\* lists, home side first, each with its label.
BothSamplesKept(i) ==
    LET row == corpus[i]
    IN  \E k \in 1 .. Len(X_samples) - 1 :
          /\ X_samples[k] = FeatureList(row, row.home_team_id,
                                        row.away_team_id, TRUE)
          /\ y_samples[k] = row.home_score
          /\ X_samples[k + 1] = FeatureList(row, row.away_team_id,
                                            row.home_team_id, FALSE)
          /\ y_samples[k + 1] = row.away_score

\* The samples follow the order of the corpus.
InCorpusOrder ==
    \A k \in 1 .. Len(X_samples) - 1 :
        X_samples[k].match_id <= X_samples[k + 1].match_id

\* C11 (SpecTrainLive): once the matches are loaded, prepare_training_data
\* returns whatever derivations fail: it has then gone through every row
\* of the corpus, and the returned lists hold, in corpus order, both
\* samples of every row whose derivations did not fail.
C11_BatchContinues ==
    /\ [](stage = "done" =>
            /\ cursor = Len(corpus)
            /\ Len(y_samples) = Len(X_samples)
            /\ InCorpusOrder
            /\ \A i \in DOMAIN corpus : Derivable(i) => BothSamplesKept(i))
    /\ (stage = "extracting" ~> stage = "done")

\* A run that returned after a failing first row and a derivable second.
C11_Witness ==
    /\ stage = "done"
    /\ Len(corpus) = 2
    /\ corpus[1].raises.home = "read"
    /\ Derivable(2)
    /\ BothSamplesKept(2)

\* The fields of the feature dict that state where the match is played.
VenueFields == {"venue_factor", "travel_distance"}

\* extract_match_features returned the two dicts.
PairDerived == stage = "paired" /\ ~features.raised

\* C12 (SpecPair): when the statistics of the two teams are identical,
\* head-to-head rows included, the dict of the first team (at venue) and
\* the dict of the second (not at venue) have the same 31 fields and
\* agree on every field other than venue_factor and travel_distance.
C12_SymmetricFeatures ==
    (PairDerived /\ request.team_a = request.team_b)
    => /\ DOMAIN features.team_a_features = DOMAIN features.team_b_features
       /\ Cardinality(DOMAIN features.team_a_features) = 31
       /\ \A field \in DOMAIN features.team_a_features \ VenueFields :
            features.team_a_features[field] = features.team_b_features[field]

\* Two teams with the same statistics, a level head-to-head record and a
\* quality rating that falls on a rounding tie; the two dicts differ in
\* the venue fields.
C12_Witness ==
    /\ PairDerived
    /\ request.team_a = request.team_b
    /\ request.team_a.quality.total_matches = 32
    /\ request.team_a.h2h.goals_scored_avg = 100
    /\ features.team_a_features.venue_factor = 100
    /\ features.team_b_features.venue_factor = 85
    /\ features.team_a_features.travel_distance = 0
    /\ features.team_b_features.travel_distance = 20000

\* C13 (SpecPair): a team whose quality query counts no finished match
\* before the date has quality rating 50.0, and a pair without a shared
\* finished match in the window has head-to-head fields (1.5, 1.5, 0.5).
C13_NoHistoryDefaults ==
    PairDerived =>
    /\ request.team_a.quality.total_matches = 0
         => /\ features.team_a_features.team_quality_rating = 5000
            /\ features.team_b_features.opponent_quality_rating = 5000
    /\ request.team_b.quality.total_matches = 0
         => /\ features.team_b_features.team_quality_rating = 5000
            /\ features.team_a_features.opponent_quality_rating = 5000
    /\ \A side \in { [stats |-> request.team_a, f |-> features.team_a_features],
                     [stats |-> request.team_b, f |-> features.team_b_features] } :
         side.stats.h2h.goals_scored_avg = Null
         => /\ side.f.h2h_goals_scored_avg = 150
            /\ side.f.h2h_goals_conceded_avg = 150
            /\ side.f.h2h_win_rate = 50

\* A first team without any finished match against a second with a
\* season behind it and no match between the two.
C13_Witness ==
    /\ PairDerived
    /\ request.team_a = NoHistoryReply
    /\ request.team_b.quality.total_matches = 7
    /\ request.team_b.h2h.goals_scored_avg = Null
    /\ features.team_a_features.team_quality_rating = 5000
    /\ features.team_b_features.team_quality_rating # 5000
    /\ features.team_b_features.h2h_goals_scored_avg = 150

\* C14 (SpecPair): rest_days is the smaller of 14 and the days between
\* the team's last finished match before the date and the date, is 7 when
\* there is no such match, and lies in 0 .. 14.
C14_RestDaysCapped ==
    PairDerived =>
    \A side \in { [stats |-> request.team_a, f |-> features.team_a_features],
                  [stats |-> request.team_b, f |-> features.team_b_features] } :
        /\ side.f.rest_days =
             IF side.stats.last_match_days = Null THEN 700
             ELSE 100 * Min(side.stats.last_match_days, 14)
        /\ side.f.rest_days >= 0
        /\ side.f.rest_days <= 1400

\* A last match 20 days before the date gives 14; the other team played
\* 3 days before and gets 3.
C14_Witness ==
    /\ PairDerived
    /\ request.team_a.last_match_days = 20
    /\ features.team_a_features.rest_days = 1400
    /\ request.team_b.last_match_days = 3
    /\ features.team_b_features.rest_days = 300

\* The side of the team predict_match named as winner ("none" for Draw).
WinnerSide ==
    IF match_result.predicted_winner = match_result.team_a_name THEN "home"
    ELSE IF match_result.predicted_winner = match_result.team_b_name THEN "away"
    ELSE "none"

\* C15 (SpecInsights): the list _generate_insights returns has at least 3
\* and at most 6 entries, whatever the feature values and the outcome.
C15_InsightCount ==
    stage = "explained"
    => Len(response.insights) >= 3 /\ Len(response.insights) <= 6

\* C16 (SpecInsights): an insight that calls a team superior or expects
\* it to dominate is about the predicted winner, and no insight announces
\* a victory when the outcome is Draw.
C16_InsightsAgreeWithOutcome ==
    stage = "explained"
    => \A k \in DOMAIN response.insights :
         LET insight == response.insights[k]
         IN  /\ insight.kind \in {"superior_quality", "dominate"}
                  => insight.side = WinnerSide
             /\ insight.kind = "high_confidence_victory"
                  => match_result.predicted_outcome # "Draw"

\* The outcome of a response is the largest of its three probabilities.
OutcomeIsArgmax(r, team_a_name) ==
    LET h == r.home_win_probability
        d == r.draw_probability
        a == r.away_win_probability
    IN  IF r.predicted_outcome = "Draw" THEN d >= h /\ d >= a
        ELSE IF r.predicted_outcome = WinOf(team_a_name) THEN h >= d /\ h >= a
        ELSE a >= d /\ a >= h

\* C17 (SpecResolve): in a response of the learned path the predicted
\* outcome is the argmax of the three probabilities of the same response:
\* Draw has the largest draw probability, "<X> Win" the largest win
\* probability for X.
C17_OutcomeIsArgmax ==
    stage = "answered"
    => OutcomeIsArgmax(response, NameOr(request.home, "Home Team"))

\* The arguments of the call that has returned.
Arguments(r) ==
    <<r.home_team_id, r.away_team_id, r.home_team_name, r.away_team_name>>

\* C18 (SpecClock): predict leaves the fitted model and scaler, the
\* statistics source and the predictor's fields as they were, and of two
\* calls with the same arguments over the same source contents the
\* second returns a result the first can have returned (the same result,
\* whichever way the roundings of the first fell).
C18_PredictIsReadOnlyFunction ==
    [][(stage = "answered" /\ stage' = "answered")
         => /\ model' = model
            /\ source_up' = source_up
            /\ matches' = matches
            /\ (Arguments(request') = Arguments(request) /\ matches' = matches)
               => response' \in { o.response : o \in PredictOutcomes(request) }
       ]_vars

\* C19 (SpecResolve): when the near-tie branch is taken on team_a_prob
\* and team_b_prob, it leaves draw_prob = 1 - (pA + pB) * 0.15 and
\* team_a_prob = team_b_prob = (pA + pB) * 0.425, so the two are equal
\* and the three sum to 1.
C19_NearTieRebalance ==
    (stage = "answered" /\ locals.branch = "near_tie")
    => LET p == ComputedProbabilities
       IN  /\ locals.draw_prob = 1000000 - ((p.a + p.b) * 15) \div 100
           /\ locals.team_a_prob = ((p.a + p.b) * 425) \div 1000
           /\ locals.team_b_prob = ((p.a + p.b) * 425) \div 1000
           /\ locals.team_a_prob = locals.team_b_prob
           /\ locals.team_a_prob + locals.team_b_prob + locals.draw_prob
                = 1000000

\* C20 (SpecRating): the map from rating to expected goals gives 0.8 at
\* 1400, 1.5 at 1700 and 2.2 at 2000, for the away rating as it is and
\* for the home rating with the 50 points added.
C20_ExpectedGoalAnchors ==
    stage = "answered"
    => LET k   == response.key_features
           adj == k.home_elo + HomeAdvantage
       IN  /\ ExpectedGoals(1400) = 240
           /\ ExpectedGoals(1700) = 450
           /\ ExpectedGoals(2000) = 660
           /\ k.away_elo = 1700 => k.away_xg = 150
           /\ adj = 1700 => k.home_xg = 150
           /\ adj = 2000 => k.home_xg = 220

\* C26 (SpecRating): _predict_international_match never predicts a draw:
\* for every pair of names the normalized draw probability is strictly
\* below the larger of the two normalized win probabilities, and the
\* outcome is a win of the home or of the away name.
C26_RatingNeverDraw ==
    stage = "answered"
    => LET p == RatingProbabilities(response.key_features.elo_difference)
       IN  /\ p.draw < Max(p.home, p.away)
           /\ response.predicted_outcome # "Draw"
           /\ response.predicted_winner # "Draw"
           /\ response.predicted_outcome
                \in {WinOf(request.home), WinOf(request.away)}

\* The pair closest to a draw: the bonus levels the ratings, the win
\* probabilities are equal and the draw probability is at its peak.
C26_Witness ==
    /\ stage = "answered"
    /\ response.key_features.elo_difference = 0
    /\ RatingProbabilities(0).home = RatingProbabilities(0).away
    /\ response.draw_probability >= 28

\* C29 (SpecRating): the confidence _predict_international_match returns
\* is at least 0.5, whichever outcome it predicts.
C29_RatingConfidenceAtLeastHalf ==
    stage = "answered" => response.confidence_score >= 50

\* C27 (SpecResolve): predict_match produces a Draw only through the
\* near-tie override: the computed draw probability is never strictly
\* above both team_a_prob and team_b_prob, the final draw branch is not
\* taken, and a Draw carries the confidence min(0.95, 0.6 + draw' * 0.3).
C27_DrawOnlyByOverride ==
    stage = "answered"
    => LET p == ComputedProbabilities
       IN  /\ ~(p.draw > p.a /\ p.draw > p.b)
           /\ locals.branch # "draw"
           /\ match_result.predicted_outcome = "Draw"
              => /\ locals.branch = "near_tie"
                 /\ locals.confidence
                      = Min(950000, 600000 + (locals.draw_prob * 3) \div 10)
                 /\ match_result.confidence_score
                      \in RoundChoices(locals.confidence, 10000)

\* A Draw returned through the override, with its confidence.
C27_Witness ==
    /\ stage = "answered"
    /\ match_result.predicted_outcome = "Draw"
    /\ locals.branch = "near_tie"
    /\ oracle.a > 0
    /\ oracle.a # oracle.b

\* The fields PredictionResponse declares without a default.
RequiredFields ==
    {"home_win_probability", "draw_probability", "away_win_probability",
     "predicted_outcome", "confidence_score", "model_version"}

\* C25 (Spec): every dict predict returns, on the learned path, on the
\* rating fallback and from the except clause, has the three
\* probabilities, a confidence score, an outcome label and a model
\* version: the required fields of the response schema.
C25_ResponseHasRequiredFields ==
    stage = "answered" => RequiredFields \subseteq DOMAIN response

\* 0.6 * winRate * 100 + 0.4 * clamp(50 + 10 * (scored - conceded), 0, 100)
\* in hundredths, for a row with at least one match.
QualityFormula(row) ==
    LET clamped == Min(10000, Max(0, 5000 + 10 * (row.avg_goals_scored
                                                  - row.avg_goals_conceded)))
    IN  RoundChoices(60000 * row.wins + 4 * clamped * row.total_matches,
                     10 * row.total_matches)

\* C24 (SpecQuality): for a team with a match in the 365-day window the
\* quality rating is 0.6 * winRate * 100 + 0.4 * clamp(50 + 10 * (average
\* scored - average conceded), 0, 100), also when the team scored no
\* goal, and lies in [0, 100].
C24_QualityFormula ==
    stage = "rated"
    => /\ features.team_quality_rating \in QualityFormula(request.row)
       /\ features.team_quality_rating \in 0 .. 10000

\* The form over 5, the form over 10 and the momentum of a returned dict.
FormValues(caller, form) ==
    IF caller = "trainer" THEN <<form.form_5, form.form_10, form.momentum>>
    ELSE <<form.form_last_5, form.form_last_10, form.momentum>>

\* C22 (SpecForm): for a team with a finished match before the date,
\* form_last_5 (form_last_10) is the points of its most recent at most 5
\* (10) matches over 3 times their number, in [0, 1] and 0.0 when all
\* were lost; momentum is form_last_5 - form_last_10.
C22_FormIsPointsShare ==
    (stage = "formed" /\ ~features.raised /\ Len(request.history) >= 1)
    => LET v == FormValues(request.caller, features.form)
       IN  /\ v[1] = FormOver(request.history, 5)
           /\ v[2] = FormOver(request.history, 10)
           /\ v[1] \in 0 .. 100
           /\ v[2] \in 0 .. 100
           /\ v[3] = v[1] - v[2]

\* C23 (SpecFeatures): when a team has no finished match in the 180-day
\* window, extract_features_for_team returns team_goals_per_game = 1.5
\* for it as attacker and opponent_goals_conceded = 1.5 for it as
\* defender, and no field of the returned dict is null.
C23_GoalRateDefaults ==
    (stage = "derived" /\ ~features.raised)
    => LET f == features.features
       IN  /\ request.team.attack.matches = 0 => f.team_goals_per_game = 150
           /\ request.opponent.defense.matches = 0
              => f.opponent_goals_conceded = 150
           /\ \A k \in DOMAIN f : f[k] # Null

\* C28 (SpecStats): in MatchPredictor.predict the total before the
\* normalization is 1.07 for all statistics, the three probabilities
\* after the renormalization sum to 1 (here to within the three
\* roundings down, in millionths), and the outcome is never DRAW: the
\* draw probability is never the strict maximum.
C28_StatsTotalAndNoDraw ==
    stage = "answered"
    => /\ locals.total = 10700
       /\ locals.home + locals.draw + locals.away = locals.norm
       /\ locals.home_win_prob + locals.draw_prob + locals.away_win_prob
            \in 999998 .. 1000000
       /\ ~(locals.draw > locals.home /\ locals.draw > locals.away)
       /\ response.predicted_outcome \in {"HOME_WIN", "AWAY_WIN"}

\* The two win probabilities level, where the draw comes closest, and a
\* home side held at the cap of 0.75.
C28_Witness ==
    /\ stage = "answered"
    /\ \/ locals.home = locals.away
       \/ locals.home = 75 * locals.total /\ locals.away = 10 * locals.total

\* C30 (SpecTrain): every connection opened while deriving features is
\* closed when the deriving call returns or raises: after
\* prepare_training_data over a corpus in which matches fail and are
\* skipped, as many connections were closed as were opened.
C30_ConnectionsClosed ==
    stage = "done" => connections.closed = connections.opened

\* C21 (SpecSample): for the same team, opponent, date and venue flag
\* over the same statistics, the dict _extract_team_features builds for
\* a training sample equals the one extract_features_for_team derives at
\* inference: the same 31 names in the same order with the same values,
\* also for a team without history.
C21_TrainingEqualsInference ==
    stage = "sampled"
    => /\ TrainerFeatureNames = FeatureNames
       /\ Len(FeatureNames) = 31
       /\ DOMAIN features.training = DOMAIN features.inference
       /\ \A k \in DOMAIN features.training :
            features.training[k] = InFine(features.inference)[k]

====
